---- MODULE Spec2Model ----
(***************************************************************************)
(* MediGuard clinical risk scoring engine.                                 *)
(*                                                                         *)
(* MediGuardRuleBasedSystem (src/rule_based_system.py) and the fusion part *)
(* of IntegratedMediGuardSystem (src/integrated_system.py), as a state     *)
(* machine: one long-lived engine, on which evaluations are requested one  *)
(* after the other; each evaluation walks through the statements of        *)
(* comprehensive_vital_analysis / comprehensive_patient_analysis.  In this  *)
(* machine (Spec) the outcome of analyze_ecg_signal is taken as a whole.   *)
(* A second machine (SpecConcurrent) runs the requests of two threads of   *)
(* src/api.py (integrated_analysis) on the one IntegratedMediGuardSystem   *)
(* instance and the one file of the patient: it walks through the steps of *)
(* analyze_ecg_signal on the shared ecg_scaler and through load_patient,   *)
(* the append to analysis_history and save_patient on the patient's file.  *)
(*                                                                         *)
(* Numbers.  Readings are Python numbers (JSON ints or floats, e.g. a      *)
(* temperature of 37.8).  Every reading and every threshold is held here   *)
(* in TENTHS of its unit: pulse 30 is 300, temperature 38.3 is 383, a      *)
(* respiratory rate of 8.5 is 85.  The fusion score is held in tenths too  *)
(* (0.4 is 4, 0.6 is 6, 2.5 is 25).                                        *)
(***************************************************************************)
EXTENDS Integers, Sequences, FiniteSets, TLC

VARIABLES
    rule_based_system,       \* the MediGuardRuleBasedSystem instance (its tables)
    pc,                      \* position of the running evaluation
    entry,                   \* which method of the engine the caller invoked
    patient_data,            \* the argument of the evaluation
    ecg_analysis,            \* results['ecg_analysis']
    errors,                  \* comprehensive_vital_analysis: errors
    cleaned_vital_signs,     \* comprehensive_vital_analysis: cleaned_vital_signs
    filtered_vitals,         \* comprehensive_vital_analysis: filtered_vitals
    news_analysis,           \* comprehensive_vital_analysis: news_analysis
    additional_assessments,  \* comprehensive_vital_analysis: additional_assessments
    recommendations,         \* comprehensive_vital_analysis: recommendations
    final_alert,             \* comprehensive_vital_analysis: final_alert
    vital_analysis,          \* the dict comprehensive_vital_analysis returns
    combined_assessment,     \* results['combined_assessment']
    unified_recommendations, \* results['unified_recommendations']
    evaluations,             \* history: evaluations this engine has completed (capped)
    ecg_scaler,              \* self.ecg_scaler of the shared IntegratedMediGuardSystem
    request,                 \* per thread: the request it serves and its locals
    patient_file,            \* patients/patient_<id>.json of the one patient served
    started,                 \* how many requests the server has received (capped)
    answered                 \* history: the requests answered with HTTP 200

\* the file of the patient, the count of requests and the requests answered
storage_vars == <<patient_file, started, answered>>

\* the state of the concurrent machines; the sequential one leaves it alone
concurrent_vars == <<ecg_scaler, request, storage_vars>>

\* the locals of the sequential machine; the concurrent one leaves them alone
sequential_vars ==
    <<pc, entry, patient_data, ecg_analysis, errors, cleaned_vital_signs,
      filtered_vitals, news_analysis, additional_assessments, recommendations,
      final_alert, vital_analysis, combined_assessment, unified_recommendations,
      evaluations>>

vars == <<rule_based_system, sequential_vars, concurrent_vars>>

(***************************************************************************)
(* Representation of Python values                                         *)
(***************************************************************************)

\* Tenths per unit: a reading x of the program is the integer x * U here.
U == 10

\* Python None in a numeric slot (a reading).  No reading of the model has
\* this value.
None == -999999

\* Python None in a dict-valued slot (results['ecg_analysis'] = None, ...).
NoneResult == [none |-> TRUE]

\* A local variable that has not been assigned yet.
Unbound == [unbound |-> TRUE]

\* float('inf') and float('-inf') of the range tables, beyond every reading.
PosInf == 999999
NegInf == -999999 - 1

\* dict.get(key, default)
Get(d, key, default) == IF key \in DOMAIN d THEN d[key] ELSE default

\* sum of f[k] over the keys of a dict whose values are numbers
RECURSIVE SumOver(_, _)
SumOver(f, keys) ==
    IF keys = {} THEN 0
    ELSE LET k == CHOOSE x \in keys : TRUE
         IN  f[k] + SumOver(f, keys \ {k})

(***************************************************************************)
(* MediGuardRuleBasedSystem.__init__: the tables                           *)
(***************************************************************************)

\* variant: the table has an entry for diastolic_bp as well
news_thresholds_with_diastolic ==
    [respiratory_rate |->
        << <<NegInf, 8 * U, 3>>, <<9 * U, 11 * U, 1>>, <<12 * U, 20 * U, 0>>,
           <<21 * U, 24 * U, 2>>, <<25 * U, PosInf, 3>> >>,
     spo2 |->
        << <<NegInf, 91 * U, 3>>, <<92 * U, 93 * U, 2>>, <<94 * U, 95 * U, 1>>,
           <<96 * U, PosInf, 0>> >>,
     systolic_bp |->
        << <<NegInf, 90 * U, 3>>, <<91 * U, 100 * U, 2>>, <<101 * U, 110 * U, 1>>,
           <<111 * U, 219 * U, 0>>, <<220 * U, PosInf, 3>> >>,
     diastolic_bp |->
        << <<NegInf, 59 * U, 2>>, <<60 * U, 99 * U, 0>>, <<100 * U, 109 * U, 1>>,
           <<110 * U, PosInf, 3>> >>,
     pulse |->
        << <<NegInf, 40 * U, 3>>, <<41 * U, 50 * U, 1>>, <<51 * U, 90 * U, 0>>,
           <<91 * U, 110 * U, 1>>, <<111 * U, 130 * U, 2>>, <<131 * U, PosInf, 3>> >>,
     temperature |->
        << <<NegInf, 350, 3>>, <<351, 360, 1>>, <<361, 380, 0>>,
           <<381, 390, 1>>, <<391, PosInf, 2>> >>]

\* self.news_thresholds[vital]['ranges']: ordered <<min_val, max_val, score>>
news_thresholds ==
    [respiratory_rate |->
        << <<NegInf, 8 * U, 3>>, <<9 * U, 11 * U, 1>>, <<12 * U, 20 * U, 0>>,
           <<21 * U, 24 * U, 2>>, <<25 * U, PosInf, 3>> >>,
     spo2 |->
        << <<NegInf, 91 * U, 3>>, <<92 * U, 93 * U, 2>>, <<94 * U, 95 * U, 1>>,
           <<96 * U, PosInf, 0>> >>,
     systolic_bp |->
        << <<NegInf, 90 * U, 3>>, <<91 * U, 100 * U, 2>>, <<101 * U, 110 * U, 1>>,
           <<111 * U, 219 * U, 0>>, <<220 * U, PosInf, 3>> >>,
     pulse |->
        << <<NegInf, 40 * U, 3>>, <<41 * U, 50 * U, 1>>, <<51 * U, 90 * U, 0>>,
           <<91 * U, 110 * U, 1>>, <<111 * U, 130 * U, 2>>, <<131 * U, PosInf, 3>> >>,
     temperature |->
        << <<NegInf, 350, 3>>, <<351, 360, 1>>, <<361, 380, 0>>,
           <<381, 390, 1>>, <<391, PosInf, 2>> >>]

\* self.risk_categories, in insertion order (the order .items() iterates in)
risk_categories ==
    << [level |-> "low",    range |-> <<0, 4>>,      response |-> "Ward-based response",
        alert_level |-> "green"],
       [level |-> "medium", range |-> <<5, 6>>,      response |-> "Key threshold for urgent response",
        alert_level |-> "yellow"],
       [level |-> "high",   range |-> <<7, PosInf>>, response |-> "Urgent or emergency response",
        alert_level |-> "red"] >>

\* self.clinical_thresholds
clinical_thresholds ==
    [diastolic_bp |-> [hypotension |-> 60 * U, normal_max |-> 89 * U,
                       stage1_hypertension |-> 99 * U, stage2_hypertension |-> 109 * U]]

\* the instance after __init__(language)
NewEngine(language) ==
    [language |-> language,
     news_thresholds |-> news_thresholds,
     risk_categories |-> risk_categories,
     clinical_thresholds |-> clinical_thresholds]

\* the keys of self.news_thresholds: the vitals that are scored
ScoredVitals == DOMAIN news_thresholds

(***************************************************************************)
(* _check_sensor_integrity                                                 *)
(***************************************************************************)

SensorError(sensor, error, observed) ==
    [sensor |-> sensor, error |-> error, observed |-> observed]

\* one single-value sensor: `if x is None ... elif not (lo <= x <= hi) ...`
CheckOne(vital_signs, key, sensor, lo, hi) ==
    LET x == Get(vital_signs, key, None)
    IN  IF x = None THEN << SensorError(sensor, "device_disconnected", <<>>) >>
        ELSE IF ~(lo <= x /\ x <= hi)
             THEN << SensorError(sensor, "implausible_value", <<x>>) >>
             ELSE <<>>

\* variant: systolic and diastolic checked one by one, each with a record of its own
CheckBloodPressureEach(vital_signs) ==
    CheckOne(vital_signs, "systolic_bp", "Blood Pressure", 60 * U, 250 * U)
    \o CheckOne(vital_signs, "diastolic_bp", "Blood Pressure", 30 * U, 150 * U)

\* the blood pressure pair
CheckBloodPressure(vital_signs) ==
    LET sbp == Get(vital_signs, "systolic_bp", None)
        dbp == Get(vital_signs, "diastolic_bp", None)
    IN  IF sbp = None \/ dbp = None
        THEN << SensorError("Blood Pressure", "device_disconnected", <<>>) >>
        ELSE IF ~(60 * U <= sbp /\ sbp <= 250 * U /\ 30 * U <= dbp /\ dbp <= 150 * U)
             THEN << SensorError("Blood Pressure", "implausible_value", <<sbp, dbp>>) >>
             ELSE <<>>

\* variant: the band of every single-value sensor taken as open (lo < x < hi)
_check_sensor_integrity_open(self, vital_signs) ==
    CheckOne(vital_signs, "pulse", "Heart Rate", 30 * U + 1, 220 * U - 1)
    \o CheckOne(vital_signs, "spo2", "SpO2", 50 * U + 1, 100 * U - 1)
    \o CheckOne(vital_signs, "temperature", "Temperature", 30 * U + 1, 43 * U - 1)
    \o CheckBloodPressure(vital_signs)
    \o CheckOne(vital_signs, "respiratory_rate", "Respiratory Rate", 5 * U + 1, 60 * U - 1)

_check_sensor_integrity(self, vital_signs) ==
    CheckOne(vital_signs, "pulse", "Heart Rate", 30 * U, 220 * U)
    \o CheckOne(vital_signs, "spo2", "SpO2", 50 * U, 100 * U)
    \o CheckOne(vital_signs, "temperature", "Temperature", 30 * U, 43 * U)
    \o CheckBloodPressure(vital_signs)
    \o CheckOne(vital_signs, "respiratory_rate", "Respiratory Rate", 5 * U, 60 * U)

(***************************************************************************)
(* comprehensive_vital_analysis, step 2 and 3: cleaning and filtering      *)
(***************************************************************************)

\* cleaned_vital_signs[key] = None for every key of `keys`
SetNone(cleaned, keys) ==
    [k \in (DOMAIN cleaned) \cup keys |-> IF k \in keys THEN None ELSE cleaned[k]]

\* variant: a blood pressure error clears the diastolic value only
CleanOneDiastolicOnly(cleaned, err) ==
    IF err.error \in {"device_disconnected", "implausible_value"}
    THEN CASE err.sensor = "Blood Pressure"   -> SetNone(cleaned, {"diastolic_bp"})
           [] err.sensor = "SpO2"             -> SetNone(cleaned, {"spo2"})
           [] err.sensor = "Heart Rate"       -> SetNone(cleaned, {"pulse"})
           [] err.sensor = "Temperature"      -> SetNone(cleaned, {"temperature"})
           [] err.sensor = "Respiratory Rate" -> SetNone(cleaned, {"respiratory_rate"})
           [] OTHER                           -> cleaned
    ELSE cleaned

\* the body of `for err in errors`
CleanOne(cleaned, err) ==
    IF err.error \in {"device_disconnected", "implausible_value"}
    THEN CASE err.sensor = "Blood Pressure"   -> SetNone(cleaned, {"systolic_bp", "diastolic_bp"})
           [] err.sensor = "SpO2"             -> SetNone(cleaned, {"spo2"})
           [] err.sensor = "Heart Rate"       -> SetNone(cleaned, {"pulse"})
           [] err.sensor = "Temperature"      -> SetNone(cleaned, {"temperature"})
           [] err.sensor = "Respiratory Rate" -> SetNone(cleaned, {"respiratory_rate"})
           [] OTHER                           -> cleaned
    ELSE cleaned

RECURSIVE CleanLoop(_, _)
CleanLoop(cleaned, errs) ==
    IF errs = <<>> THEN cleaned
    ELSE CleanLoop(CleanOne(cleaned, Head(errs)), Tail(errs))

\* cleaned_vital_signs = vital_signs.copy(); for err in errors: ...
CleanVitalSigns(vital_signs, errs) == CleanLoop(vital_signs, errs)

\* {k: v for k, v in cleaned_vital_signs.items() if v is not None}
FilterNone(cleaned) ==
    [k \in {x \in DOMAIN cleaned : cleaned[x] # None} |-> cleaned[k]]

(***************************************************************************)
(* calculate_news_score and its helpers                                    *)
(***************************************************************************)

\* for min_val, max_val, score in ranges: first match wins; default 0
RECURSIVE FirstMatch(_, _)
FirstMatch(ranges, value) ==
    IF ranges = <<>> THEN 0
    ELSE IF Head(ranges)[1] <= value /\ value <= Head(ranges)[2]
         THEN Head(ranges)[3]
         ELSE FirstMatch(Tail(ranges), value)

\* variant: the position of the first matching range is returned, not its score
RECURSIVE FirstMatchPosition(_, _, _)
FirstMatchPosition(ranges, value, position) ==
    IF ranges = <<>> THEN 0
    ELSE IF Head(ranges)[1] <= value /\ value <= Head(ranges)[2]
         THEN position
         ELSE FirstMatchPosition(Tail(ranges), value, position + 1)

_get_news_parameter_score_position(self, vital, value) ==
    FirstMatchPosition(self.news_thresholds[vital], value, 1)

_get_news_parameter_score(self, vital, value) ==
    FirstMatch(self.news_thresholds[vital], value)

\* for category, details in self.risk_categories.items(): first match wins
RECURSIVE FirstCategory(_, _)
FirstCategory(categories, total_score) ==
    IF categories = <<>>
    THEN [level |-> "unknown", response |-> "Review required",
          alert_level |-> "gray", total_score |-> total_score]
    ELSE IF Head(categories).range[1] <= total_score /\ total_score <= Head(categories).range[2]
         THEN [level |-> Head(categories).level, response |-> Head(categories).response,
               alert_level |-> Head(categories).alert_level, total_score |-> total_score]
         ELSE FirstCategory(Tail(categories), total_score)

\* variant: the lower end of each range taken as exclusive
RECURSIVE FirstCategoryExclusive(_, _)
FirstCategoryExclusive(categories, total_score) ==
    IF categories = <<>>
    THEN [level |-> "unknown", response |-> "Review required",
          alert_level |-> "gray", total_score |-> total_score]
    ELSE IF Head(categories).range[1] < total_score /\ total_score <= Head(categories).range[2]
         THEN [level |-> Head(categories).level, response |-> Head(categories).response,
               alert_level |-> Head(categories).alert_level, total_score |-> total_score]
         ELSE FirstCategoryExclusive(Tail(categories), total_score)

_determine_risk_category_exclusive(self, total_score) ==
    FirstCategoryExclusive(self.risk_categories, total_score)

_determine_risk_category(self, total_score) ==
    FirstCategory(self.risk_categories, total_score)

\* variant: `total_score = score` in place of `total_score += score`
calculate_news_score_overwrite(self, vital_signs) ==
    LET scored == (DOMAIN vital_signs) \cap (DOMAIN self.news_thresholds)
        scores == [v \in scored |->
                     [value |-> vital_signs[v],
                      score |-> _get_news_parameter_score(self, v, vital_signs[v])]]
        total_score == IF scored = {} THEN 0
                       ELSE scores[CHOOSE v \in scored : TRUE].score
    IN  [individual_scores |-> scores,
         total_news_score |-> total_score,
         risk_category |-> _determine_risk_category(self, total_score)]

\* variant: a key without a table of its own is scored with the pulse table
calculate_news_score_every_key(self, vital_signs) ==
    LET scored == DOMAIN vital_signs
        scores == [v \in scored |->
                     [value |-> vital_signs[v],
                      score |-> IF v \in DOMAIN self.news_thresholds
                                THEN _get_news_parameter_score(self, v, vital_signs[v])
                                ELSE _get_news_parameter_score(self, "pulse", vital_signs[v])]]
        total_score == SumOver([v \in scored |-> scores[v].score], scored)
    IN  [individual_scores |-> scores,
         total_news_score |-> total_score,
         risk_category |-> _determine_risk_category(self, total_score)]

calculate_news_score(self, vital_signs) ==
    LET scored == (DOMAIN vital_signs) \cap (DOMAIN self.news_thresholds)
        scores == [v \in scored |->
                     [value |-> vital_signs[v],
                      score |-> _get_news_parameter_score(self, v, vital_signs[v])]]
        total_score == SumOver([v \in scored |-> scores[v].score], scored)
    IN  [individual_scores |-> scores,
         total_news_score |-> total_score,
         risk_category |-> _determine_risk_category(self, total_score)]

(***************************************************************************)
(* _additional_clinical_rules and _check_critical_combinations             *)
(***************************************************************************)

\* {"en": ..., "ar": ...}[self.language]: the text is kept as its key
Description(type, language) == <<"description", type, language>>

\* `if cond: critical_alerts.append({...})`
Combination(cond, type, severity, language) ==
    IF cond
    THEN << [type |-> type, description |-> Description(type, language),
             severity |-> severity] >>
    ELSE <<>>

\* variant: the three rules chained with elif, the first that holds wins
_check_critical_combinations_elif(self, vital_signs) ==
    LET distress == Combination(Get(vital_signs, "spo2", 100 * U) < 92 * U
                                  /\ Get(vital_signs, "respiratory_rate", 15 * U) > 22 * U,
                                "respiratory_distress", "critical", self.language)
        shock == Combination(Get(vital_signs, "systolic_bp", 120 * U) < 90 * U
                               /\ Get(vital_signs, "pulse", 70 * U) > 100 * U,
                             "potential_shock", "critical", self.language)
        sepsis == Combination(Get(vital_signs, "temperature", 37 * U) > 383
                                /\ Get(vital_signs, "pulse", 70 * U) > 110 * U,
                              "potential_sepsis", "high", self.language)
    IN  IF distress # <<>> THEN distress ELSE IF shock # <<>> THEN shock ELSE sepsis

\* variant: a missing vital defaults to an alarming value (spo2 0, respiratory
\* rate 99, systolic 0, pulse 999, temperature 99) instead of a healthy one
_check_critical_combinations_alarming_default(self, vital_signs) ==
    Combination(Get(vital_signs, "spo2", 0) < 92 * U
                    /\ Get(vital_signs, "respiratory_rate", 99 * U) > 22 * U,
                "respiratory_distress", "critical", self.language)
    \o Combination(Get(vital_signs, "systolic_bp", 0) < 90 * U
                    /\ Get(vital_signs, "pulse", 999 * U) > 100 * U,
                "potential_shock", "critical", self.language)
    \o Combination(Get(vital_signs, "temperature", 99 * U) > 383
                    /\ Get(vital_signs, "pulse", 999 * U) > 110 * U,
                "potential_sepsis", "high", self.language)

\* variant: the thresholds of the rules taken as inclusive (<= and >=)
_check_critical_combinations_inclusive(self, vital_signs) ==
    Combination(Get(vital_signs, "spo2", 100 * U) <= 92 * U
                    /\ Get(vital_signs, "respiratory_rate", 15 * U) >= 22 * U,
                "respiratory_distress", "critical", self.language)
    \o Combination(Get(vital_signs, "systolic_bp", 120 * U) <= 90 * U
                    /\ Get(vital_signs, "pulse", 70 * U) >= 100 * U,
                "potential_shock", "critical", self.language)
    \o Combination(Get(vital_signs, "temperature", 37 * U) >= 383
                    /\ Get(vital_signs, "pulse", 70 * U) >= 110 * U,
                "potential_sepsis", "high", self.language)

_check_critical_combinations(self, vital_signs) ==
    Combination(Get(vital_signs, "spo2", 100 * U) < 92 * U
                    /\ Get(vital_signs, "respiratory_rate", 15 * U) > 22 * U,
                "respiratory_distress", "critical", self.language)
    \o Combination(Get(vital_signs, "systolic_bp", 120 * U) < 90 * U
                    /\ Get(vital_signs, "pulse", 70 * U) > 100 * U,
                "potential_shock", "critical", self.language)
    \o Combination(Get(vital_signs, "temperature", 37 * U) > 383
                    /\ Get(vital_signs, "pulse", 70 * U) > 110 * U,
                "potential_sepsis", "high", self.language)

\* the if / elif chain over the diastolic value
DiastolicAssessment(self, diastolic) ==
    LET t == self.clinical_thresholds.diastolic_bp
    IN  IF diastolic < t.hypotension
        THEN [status |-> "hypotension", severity |-> "medium", value |-> diastolic]
        ELSE IF diastolic > t.stage2_hypertension
        THEN [status |-> "severe_hypertension", severity |-> "high", value |-> diastolic]
        ELSE IF diastolic > t.stage1_hypertension
        THEN [status |-> "moderate_hypertension", severity |-> "medium", value |-> diastolic]
        ELSE [status |-> "normal", severity |-> "low", value |-> diastolic]

\* the dict `assessments`: keys diastolic_bp and critical_combinations, each optional
_additional_clinical_rules(self, vital_signs) ==
    LET critical_combinations == _check_critical_combinations(self, vital_signs)
        dia == IF "diastolic_bp" \in DOMAIN vital_signs
               THEN "diastolic_bp" :> DiastolicAssessment(self, vital_signs["diastolic_bp"])
               ELSE <<>>
        crit == IF critical_combinations # <<>>
                THEN "critical_combinations" :> critical_combinations
                ELSE <<>>
    IN  dia @@ crit

(***************************************************************************)
(* _generate_recommendations and _determine_final_alert                    *)
(***************************************************************************)

\* self.translations[key][self.language].format(**kwargs), kept as key and arguments
_translate(self, key, desc) == [key |-> key, language |-> self.language, desc |-> desc]

\* for combo in details: if combo['severity'] == 'critical': append(...)
RECURSIVE ComboMessages(_, _)
ComboMessages(self, combos) ==
    IF combos = <<>> THEN <<>>
    ELSE (IF Head(combos).severity = "critical"
          THEN << _translate(self, "critical_combo", <<Head(combos).description>>) >>
          ELSE <<>>)
         \o ComboMessages(self, Tail(combos))

\* variant: a message for every combination, whatever its severity
_generate_recommendations_unfiltered(self, news, assessments) ==
    LET risk_level == news.risk_category.level
        tier == IF risk_level = "high"
                THEN << _translate(self, "urgent", <<>>), _translate(self, "monitor_15", <<>>) >>
                ELSE IF risk_level = "medium"
                THEN << _translate(self, "medium", <<>>), _translate(self, "monitor_30", <<>>) >>
                ELSE << _translate(self, "normal", <<>>), _translate(self, "routine", <<>>) >>
        combos == Get(assessments, "critical_combinations", <<>>)
    IN  tier \o [i \in 1..Len(combos) |->
                    _translate(self, "critical_combo", <<combos[i].description>>)]

_generate_recommendations(self, news, assessments) ==
    LET risk_level == news.risk_category.level
        tier == IF risk_level = "high"
                THEN << _translate(self, "urgent", <<>>), _translate(self, "monitor_15", <<>>) >>
                ELSE IF risk_level = "medium"
                THEN << _translate(self, "medium", <<>>), _translate(self, "monitor_30", <<>>) >>
                ELSE << _translate(self, "normal", <<>>), _translate(self, "routine", <<>>) >>
    IN  tier \o ComboMessages(self, Get(assessments, "critical_combinations", <<>>))

\* any(combo.get('severity') == 'critical' for combo in ...)
HasCritical(assessments) ==
    LET combos == Get(assessments, "critical_combinations", <<>>)
    IN  \E i \in 1..Len(combos) : combos[i].severity = "critical"

\* variant: the NEWS colour red is tested before the critical combinations
_determine_final_alert_news_first(self, news, assessments) ==
    LET news_alert == news.risk_category.alert_level
    IN  IF news_alert = "red"
        THEN [level |-> "red", color |-> "red", action |-> "urgent_response"]
        ELSE IF news_alert = "yellow"
        THEN [level |-> "yellow", color |-> "yellow", action |-> "prompt_assessment"]
        ELSE IF HasCritical(assessments)
        THEN [level |-> "critical", color |-> "purple", action |-> "immediate_intervention"]
        ELSE [level |-> "green", color |-> "green", action |-> "routine_monitoring"]

\* variant: has_critical overwritten in a loop, so that the last combination decides
_determine_final_alert_last_only(self, news, assessments) ==
    LET news_alert == news.risk_category.alert_level
        combos == Get(assessments, "critical_combinations", <<>>)
    IN  IF combos # <<>> /\ combos[Len(combos)].severity = "critical"
        THEN [level |-> "critical", color |-> "purple", action |-> "immediate_intervention"]
        ELSE IF news_alert = "red"
        THEN [level |-> "red", color |-> "red", action |-> "urgent_response"]
        ELSE IF news_alert = "yellow"
        THEN [level |-> "yellow", color |-> "yellow", action |-> "prompt_assessment"]
        ELSE [level |-> "green", color |-> "green", action |-> "routine_monitoring"]

_determine_final_alert(self, news, assessments) ==
    LET news_alert == news.risk_category.alert_level
    IN  IF HasCritical(assessments)
        THEN [level |-> "critical", color |-> "purple", action |-> "immediate_intervention"]
        ELSE IF news_alert = "red"
        THEN [level |-> "red", color |-> "red", action |-> "urgent_response"]
        ELSE IF news_alert = "yellow"
        THEN [level |-> "yellow", color |-> "yellow", action |-> "prompt_assessment"]
        ELSE [level |-> "green", color |-> "green", action |-> "routine_monitoring"]

\* comprehensive_vital_analysis as a whole: the dict it returns for a vital_signs
comprehensive_vital_analysis(self, vital_signs) ==
    LET errs == _check_sensor_integrity(self, vital_signs)
        cleaned == CleanVitalSigns(vital_signs, errs)
        filtered == FilterNone(cleaned)
        news == calculate_news_score(self, filtered)
        assessments == _additional_clinical_rules(self, filtered)
        recs == _generate_recommendations(self, news, assessments)
        alert == _determine_final_alert(self, news, assessments)
    IN  [news_analysis |-> news,
         additional_assessments |-> assessments,
         recommendations |-> recs,
         final_alert |-> alert,
         requires_immediate_attention |-> (alert.level \in {"red", "critical"}),
         sensor_errors |-> errs,
         cleaned_vital_signs |-> cleaned]

(***************************************************************************)
(* IntegratedMediGuardSystem: analyze_ecg_signal, _calculate_combined_risk *)
(* and _generate_unified_recommendations                                   *)
(***************************************************************************)

\* self.ecg_risk_levels
ecg_risk_levels == <<"low", "medium", "high", "medium", "high">>

\* The outcomes of analyze_ecg_signal.  The classifier is an external trained
\* model: its predicted class (0..4) is any of the five; an exception in
\* preprocessing or prediction gives the error record of the except branch.
EcgOutcomes(language) ==
    { [class |-> c, class_name |-> <<"ecg_class", c, language>>,
       risk_level |-> ecg_risk_levels[c + 1], error |-> FALSE] : c \in 0..4 }
    \cup { [class |-> 4, class_name |-> <<"ecg_error", language>>,
            risk_level |-> "high", error |-> TRUE] }

\* risk_map.get(ecg_risk, 2)
RiskMap(ecg_risk) ==
    CASE ecg_risk = "low" -> 1
      [] ecg_risk = "medium" -> 2
      [] ecg_risk = "high" -> 3
      [] OTHER -> 2

\* variant: `news_score > 7` in place of `news_score >= 7`
VitalRiskScoreAbove(news_score) ==
    IF news_score > 7 THEN 3 ELSE IF news_score >= 5 THEN 2 ELSE 1

\* variant: `news_score > 5` in place of `news_score >= 5`
VitalRiskScoreAboveFive(news_score) ==
    IF news_score >= 7 THEN 3 ELSE IF news_score > 5 THEN 2 ELSE 1

\* the NEWS total converted into the vitals risk score
VitalRiskScore(news_score) ==
    IF news_score >= 7 THEN 3 ELSE IF news_score >= 5 THEN 2 ELSE 1

RECURSIVE SumSeq(_)
SumSeq(q) == IF q = <<>> THEN 0 ELSE Head(q) + SumSeq(Tail(q))

RECURSIVE Descriptions(_)
Descriptions(combos) ==
    IF combos = <<>> THEN <<>>
    ELSE <<Head(combos).description>> \o Descriptions(Tail(combos))

\* the descriptions of the combinations of severity critical only
RECURSIVE CriticalDescriptions(_)
CriticalDescriptions(combos) ==
    IF combos = <<>> THEN <<>>
    ELSE (IF Head(combos).severity = "critical" THEN <<Head(combos).description>> ELSE <<>>)
         \o CriticalDescriptions(Tail(combos))

\* variant: only the combinations of severity critical become risk factors
_calculate_combined_risk_critical_only(ecg, vitals) ==
    LET ecg_scores == IF ecg # NoneResult THEN << RiskMap(ecg.risk_level) * 4 >> ELSE <<>>
        ecg_factors == IF ecg # NoneResult /\ ecg.risk_level \in {"medium", "high"}
                       THEN << <<"ECG issue", ecg.class_name>> >>
                       ELSE <<>>
        vital_scores == IF vitals # NoneResult
                        THEN << VitalRiskScore(vitals.news_analysis.total_news_score) * 6 >>
                        ELSE <<>>
        vital_factors == IF vitals # NoneResult
                         THEN CriticalDescriptions(Get(vitals.additional_assessments,
                                                       "critical_combinations", <<>>))
                         ELSE <<>>
        risk_scores == ecg_scores \o vital_scores
        combined_score == SumSeq(risk_scores)
        final_risk == IF risk_scores # <<>>
                      THEN (IF combined_score >= 25 THEN "high"
                            ELSE IF combined_score >= 15 THEN "medium" ELSE "low")
                      ELSE "unknown"
        alert_color == IF risk_scores # <<>>
                       THEN (IF combined_score >= 25 THEN "red"
                             ELSE IF combined_score >= 15 THEN "yellow" ELSE "green")
                       ELSE "gray"
    IN  [combined_risk_level |-> final_risk,
         alert_color |-> alert_color,
         risk_score |-> IF risk_scores # <<>> THEN combined_score ELSE 0,
         contributing_factors |-> ecg_factors \o vital_factors,
         requires_immediate_attention |-> (final_risk = "high")]

\* variant: a missing source is given the neutral score 2 (medium) under its weight
_calculate_combined_risk_neutral(ecg, vitals) ==
    LET ecg_scores == IF ecg # NoneResult THEN << RiskMap(ecg.risk_level) * 4 >> ELSE << 2 * 4 >>
        ecg_factors == IF ecg # NoneResult /\ ecg.risk_level \in {"medium", "high"}
                       THEN << <<"ECG issue", ecg.class_name>> >>
                       ELSE <<>>
        vital_scores == IF vitals # NoneResult
                        THEN << VitalRiskScore(vitals.news_analysis.total_news_score) * 6 >>
                        ELSE << 2 * 6 >>
        vital_factors == IF vitals # NoneResult
                         THEN Descriptions(Get(vitals.additional_assessments,
                                               "critical_combinations", <<>>))
                         ELSE <<>>
        risk_scores == IF ecg = NoneResult /\ vitals = NoneResult THEN <<>>
                       ELSE ecg_scores \o vital_scores
        combined_score == SumSeq(risk_scores)
        final_risk == IF risk_scores # <<>>
                      THEN (IF combined_score >= 25 THEN "high"
                            ELSE IF combined_score >= 15 THEN "medium" ELSE "low")
                      ELSE "unknown"
        alert_color == IF risk_scores # <<>>
                       THEN (IF combined_score >= 25 THEN "red"
                             ELSE IF combined_score >= 15 THEN "yellow" ELSE "green")
                       ELSE "gray"
    IN  [combined_risk_level |-> final_risk,
         alert_color |-> alert_color,
         risk_score |-> IF risk_scores # <<>> THEN combined_score ELSE 0,
         contributing_factors |-> ecg_factors \o vital_factors,
         requires_immediate_attention |-> (final_risk = "high")]

\* variant: a vitals final alert of level critical raises the combined level to high
_calculate_combined_risk_escalating(ecg, vitals) ==
    LET ecg_scores == IF ecg # NoneResult THEN << RiskMap(ecg.risk_level) * 4 >> ELSE <<>>
        ecg_factors == IF ecg # NoneResult /\ ecg.risk_level \in {"medium", "high"}
                       THEN << <<"ECG issue", ecg.class_name>> >>
                       ELSE <<>>
        vital_scores == IF vitals # NoneResult
                        THEN << VitalRiskScore(vitals.news_analysis.total_news_score) * 6 >>
                        ELSE <<>>
        vital_factors == IF vitals # NoneResult
                         THEN Descriptions(Get(vitals.additional_assessments,
                                               "critical_combinations", <<>>))
                         ELSE <<>>
        escalated == vitals # NoneResult /\ vitals.final_alert.level = "critical"
        risk_scores == ecg_scores \o vital_scores
        combined_score == SumSeq(risk_scores)
        final_risk == IF risk_scores # <<>>
                      THEN (IF combined_score >= 25 \/ escalated THEN "high"
                            ELSE IF combined_score >= 15 THEN "medium" ELSE "low")
                      ELSE "unknown"
        alert_color == IF risk_scores # <<>>
                       THEN (IF combined_score >= 25 \/ escalated THEN "red"
                             ELSE IF combined_score >= 15 THEN "yellow" ELSE "green")
                       ELSE "gray"
    IN  [combined_risk_level |-> final_risk,
         alert_color |-> alert_color,
         risk_score |-> IF risk_scores # <<>> THEN combined_score ELSE 0,
         contributing_factors |-> ecg_factors \o vital_factors,
         requires_immediate_attention |-> (final_risk = "high")]

\* analysis_results is the dict `results`; its scores are in tenths
_calculate_combined_risk(ecg, vitals) ==
    LET ecg_scores == IF ecg # NoneResult THEN << RiskMap(ecg.risk_level) * 4 >> ELSE <<>>
        ecg_factors == IF ecg # NoneResult /\ ecg.risk_level \in {"medium", "high"}
                       THEN << <<"ECG issue", ecg.class_name>> >>
                       ELSE <<>>
        vital_scores == IF vitals # NoneResult
                        THEN << VitalRiskScore(vitals.news_analysis.total_news_score) * 6 >>
                        ELSE <<>>
        vital_factors == IF vitals # NoneResult
                         THEN Descriptions(Get(vitals.additional_assessments,
                                               "critical_combinations", <<>>))
                         ELSE <<>>
        risk_scores == ecg_scores \o vital_scores
        combined_score == SumSeq(risk_scores)
        final_risk == IF risk_scores # <<>>
                      THEN (IF combined_score >= 25 THEN "high"
                            ELSE IF combined_score >= 15 THEN "medium" ELSE "low")
                      ELSE "unknown"
        alert_color == IF risk_scores # <<>>
                       THEN (IF combined_score >= 25 THEN "red"
                             ELSE IF combined_score >= 15 THEN "yellow" ELSE "green")
                       ELSE "gray"
    IN  [combined_risk_level |-> final_risk,
         alert_color |-> alert_color,
         risk_score |-> IF risk_scores # <<>> THEN combined_score ELSE 0,
         contributing_factors |-> ecg_factors \o vital_factors,
         requires_immediate_attention |-> (final_risk = "high")]

\* variant: the emergency message appended at the end instead of inserted first
_generate_unified_recommendations_append(language, ecg, vitals, combined) ==
    LET ecg_recs == IF ecg = NoneResult THEN <<>>
                    ELSE IF ecg.class \in {2, 4}
                    THEN << [key |-> "ventricular", language |-> language, desc |-> <<>>] >>
                    ELSE IF ecg.class = 1
                    THEN << [key |-> "supraventricular", language |-> language, desc |-> <<>>] >>
                    ELSE IF ecg.class = 3
                    THEN << [key |-> "fusion", language |-> language, desc |-> <<>>] >>
                    ELSE <<>>
        vital_recs == IF vitals = NoneResult THEN <<>> ELSE vitals.recommendations
        emergency == IF combined.requires_immediate_attention
                     THEN << [key |-> "emergency", language |-> language, desc |-> <<>>] >>
                     ELSE <<>>
    IN  ecg_recs \o vital_recs \o emergency

_generate_unified_recommendations(language, ecg, vitals, combined) ==
    LET ecg_recs == IF ecg = NoneResult THEN <<>>
                    ELSE IF ecg.class \in {2, 4}
                    THEN << [key |-> "ventricular", language |-> language, desc |-> <<>>] >>
                    ELSE IF ecg.class = 1
                    THEN << [key |-> "supraventricular", language |-> language, desc |-> <<>>] >>
                    ELSE IF ecg.class = 3
                    THEN << [key |-> "fusion", language |-> language, desc |-> <<>>] >>
                    ELSE <<>>
        vital_recs == IF vitals = NoneResult THEN <<>> ELSE vitals.recommendations
        emergency == IF combined.requires_immediate_attention
                     THEN << [key |-> "emergency", language |-> language, desc |-> <<>>] >>
                     ELSE <<>>
    IN  emergency \o ecg_recs \o vital_recs

(***************************************************************************)
(* The floats of _calculate_combined_risk.  ecg_score * 0.4,               *)
(* vital_risk_score * 0.6 and sum(risk_scores) are Python floats (IEEE 754 *)
(* binary64: 53 significant bits, round to nearest, ties to even), so the  *)
(* number in risk_score is not always the decimal its tenths stand for.    *)
(* A float is held here exactly, as a whole number of units of 2^-FracBits *)
(* written in Limbs digits of LimbBits bits each, lowest digit first.  All *)
(* floats of the fusion lie between 0.25 and 4 and are whole numbers of    *)
(* such units.                                                             *)
(***************************************************************************)
FracBits == 60
LimbBits == 11
Limbs == 6
Mantissa == 53

Base == 2 ^ LimbBits
Width == LimbBits * Limbs
Places == 1..Limbs

\* bit i (from 1, the lowest) of a
Bit(a, i) == (a[((i - 1) \div LimbBits) + 1] \div (2 ^ ((i - 1) % LimbBits))) % 2

\* the whole number n (below 64) in units of 2^-FracBits
Scaled(n) ==
    [p \in Places |-> IF p = Limbs THEN n * (2 ^ (FracBits - LimbBits * (Limbs - 1)))
                      ELSE 0]

\* a + b: the carry into digit p, and the digits from p up
RECURSIVE CarryInto(_, _, _)
CarryInto(a, b, p) ==
    IF p = 1 THEN 0 ELSE (a[p - 1] + b[p - 1] + CarryInto(a, b, p - 1)) \div Base

RECURSIVE AddFrom(_, _, _)
AddFrom(a, b, p) ==
    IF p > Limbs THEN <<>>
    ELSE << (a[p] + b[p] + CarryInto(a, b, p)) % Base >> \o AddFrom(a, b, p + 1)

AddBits(a, b) == AddFrom(a, b, 1)

\* k * a for a small whole number k >= 1
RECURSIVE TimesBits(_, _)
TimesBits(k, a) == IF k = 1 THEN a ELSE AddBits(a, TimesBits(k - 1, a))

\* long division by a small whole number d, from the highest digit down: the
\* remainder left after digit p, and the digits of the quotient up to digit p
RECURSIVE RemainderFrom(_, _, _)
RemainderFrom(a, d, p) ==
    IF p > Limbs THEN 0 ELSE (RemainderFrom(a, d, p + 1) * Base + a[p]) % d

RECURSIVE DivUpTo(_, _, _)
DivUpTo(a, d, p) ==
    IF p = 0 THEN <<>>
    ELSE DivUpTo(a, d, p - 1) \o << (RemainderFrom(a, d, p + 1) * Base + a[p]) \div d >>

DivBits(a, d) == DivUpTo(a, d, Limbs)

\* a < b and a <= b
LessBits(a, b) ==
    \E p \in Places : a[p] < b[p] /\ \A q \in Places : q > p => a[q] = b[q]
LessEqBits(a, b) == (\A p \in Places : a[p] = b[p]) \/ LessBits(a, b)

\* the place of the highest bit that is set, 0 for zero
TopBit(a) ==
    IF \E i \in 1..Width : Bit(a, i) = 1
    THEN CHOOSE i \in 1..Width : Bit(a, i) = 1 /\ \A j \in 1..Width : j > i => Bit(a, j) = 0
    ELSE 0

\* how many of the bits of digit p are among the lowest `drop` bits
DroppedOf(p, drop) ==
    IF drop <= LimbBits * (p - 1) THEN 0
    ELSE IF drop >= LimbBits * p THEN LimbBits
    ELSE drop - LimbBits * (p - 1)

\* the float nearest to a (plus something below one unit if `inexact`): the
\* Mantissa highest bits are kept; the rest rounds to nearest, ties to even
RoundToFloat(a, inexact) ==
    LET drop == TopBit(a) - Mantissa
    IN  IF drop <= 0 THEN a
        ELSE LET kept == [p \in Places |-> a[p] - (a[p] % (2 ^ DroppedOf(p, drop)))]
                 half == Bit(a, drop) = 1
                 more == inexact \/ \E i \in 1..Width : i < drop /\ Bit(a, i) = 1
                 odd == Bit(a, drop + 1) = 1
                 up == IF half /\ (more \/ odd) THEN 1 ELSE 0
                 last_place == [p \in Places |->
                                   IF p = (drop \div LimbBits) + 1
                                   THEN up * (2 ^ (drop % LimbBits)) ELSE 0]
             IN  AddBits(kept, last_place)

\* the float of a decimal literal with one decimal place, given in tenths: 0.4 is 4
FloatLiteral(tenths) ==
    RoundToFloat(DivBits(Scaled(tenths), 10), RemainderFrom(Scaled(tenths), 10, 1) # 0)

\* ecg_score * 0.4 and vital_risk_score * 0.6: the int times the float, rounded
FloatProduct(k, weight) == RoundToFloat(TimesBits(k, weight), FALSE)

\* sum(risk_scores): 0 + the first term is the term; the second addition rounds
FloatSum(terms) ==
    IF terms = <<>> THEN Scaled(0)
    ELSE IF Len(terms) = 1 THEN terms[1]
    ELSE RoundToFloat(AddBits(terms[1], terms[2]), FALSE)

\* variant: the cardiac weight 0.5 instead of 0.4
ecg_weight_half == FloatLiteral(5)

\* the weights 0.4 and 0.6 as the floats their literals are

ecg_weight == FloatLiteral(4)
vitals_weight == FloatLiteral(6)

\* the float `sum(risk_scores) if risk_scores else 0` of _calculate_combined_risk
risk_score_float(ecg, vitals) ==
    LET ecg_scores == IF ecg # NoneResult
                      THEN << FloatProduct(RiskMap(ecg.risk_level), ecg_weight) >>
                      ELSE <<>>
        vital_scores == IF vitals # NoneResult
                        THEN << FloatProduct(
                                    VitalRiskScore(vitals.news_analysis.total_news_score),
                                    vitals_weight) >>
                        ELSE <<>>
    IN  FloatSum(ecg_scores \o vital_scores)

\* the level `combined_score >= 2.5 ... elif combined_score >= 1.5` gives the float
risk_level_float(ecg, vitals) ==
    LET combined_score == risk_score_float(ecg, vitals)
    IN  IF ecg = NoneResult /\ vitals = NoneResult THEN "unknown"
        ELSE IF LessEqBits(FloatLiteral(25), combined_score) THEN "high"
        ELSE IF LessEqBits(FloatLiteral(15), combined_score) THEN "medium"
        ELSE "low"

(***************************************************************************)
(* The inputs of the model                                                 *)
(***************************************************************************)

\* How far around each threshold of the code the swept readings go, in tenths.
Spread == 1

VitalKeys == {"pulse", "spo2", "temperature", "systolic_bp", "diastolic_bp",
              "respiratory_rate"}

\* a key the engine does not know
ExtraKey == "glucose"

\* A typical reading, a clearly abnormal one (it satisfies the critical
\* combinations it takes part in) and one no sensor can produce, per vital.
NormalReading ==
    [pulse |-> 70 * U, spo2 |-> 98 * U, temperature |-> 370, systolic_bp |-> 120 * U,
     diastolic_bp |-> 80 * U, respiratory_rate |-> 16 * U]
AbnormalReading ==
    [pulse |-> 120 * U, spo2 |-> 85 * U, temperature |-> 390, systolic_bp |-> 80 * U,
     diastolic_bp |-> 50 * U, respiratory_rate |-> 30 * U]
ImplausibleReading ==
    [pulse |-> 250 * U, spo2 |-> 40 * U, temperature |-> 450, systolic_bp |-> 300 * U,
     diastolic_bp |-> 200 * U, respiratory_rate |-> 70 * U]

\* The numbers the code compares each vital with (plausibility band, range
\* tables, staging, combinations), in tenths.
Cuts ==
    [pulse |-> {30, 40, 41, 50, 51, 90, 91, 100, 110, 111, 130, 131, 220},
     spo2 |-> {50, 91, 92, 93, 94, 95, 96, 100},
     temperature |-> {30, 35, 36, 38, 39, 43},
     systolic_bp |-> {60, 90, 91, 100, 101, 110, 111, 219, 220, 250},
     diastolic_bp |-> {30, 60, 89, 99, 109, 150},
     respiratory_rate |-> {5, 8, 9, 11, 12, 20, 21, 22, 24, 25, 60}]
CutsTenths ==
    [k \in VitalKeys |-> { c * U : c \in Cuts[k] }
                         \cup (IF k = "temperature" THEN {351, 361, 381, 383, 391} ELSE {})]

\* The band of the plausibility check, per vital, in tenths.
Band ==
    [pulse |-> <<30 * U, 220 * U>>, spo2 |-> <<50 * U, 100 * U>>,
     temperature |-> <<30 * U, 43 * U>>, systolic_bp |-> <<60 * U, 250 * U>>,
     diastolic_bp |-> <<30 * U, 150 * U>>, respiratory_rate |-> <<5 * U, 60 * U>>]

\* The swept values of one vital: every threshold and its neighbours up to
\* Spread tenths away, one whole unit outside each end of the band, and None.
SweepValues(k) ==
    { c + d : c \in CutsTenths[k], d \in (0 - Spread)..Spread }
    \cup { Band[k][1] - U, Band[k][2] + U, None }

\* dict with d[key] = value set
Override(d, key, value) ==
    [k \in (DOMAIN d) \cup {key} |-> IF k = key THEN value ELSE d[k]]

\* The values a vital takes in the combined reading sets: its normal and its
\* abnormal reading; the pulse, which two combinations test against different
\* thresholds (100 and 110), has a mildly raised value between them as well.
CoarseValues ==
    [k \in VitalKeys |->
        <<NormalReading[k], AbnormalReading[k]>>
        \o (IF k = "pulse" THEN <<105 * U>> ELSE <<>>)]

\* choice g gives each vital 0 (key absent) or the index of one of its CoarseValues
FromChoice(g) ==
    [k \in {x \in DOMAIN g : g[x] # 0} |-> CoarseValues[k][g[k]]]

\* every combination of absent, normal and abnormal vitals
CoarseReadings ==
    { FromChoice(g) : g \in { h \in [VitalKeys -> 0..3] :
                                \A k \in VitalKeys : h[k] <= Len(CoarseValues[k]) } }

\* the reading sets in which one vital is swept
SweepBases == {NormalReading, AbnormalReading, ImplausibleReading, <<>>}

SweptReadings ==
    UNION { { Override(b, k, v) : b \in SweepBases, v \in SweepValues(k) } : k \in VitalKeys }

\* reading sets that carry an unrecognized key as well
ExtraReadings ==
    { Override(b, ExtraKey, v) : b \in SweepBases, v \in {None, 0, 55 * U} }

\* the values up to Spread tenths around each of the given whole numbers
Around(units) == { c * U + d : c \in units, d \in (0 - Spread)..Spread }

\* reading sets of the two vitals of a critical combination alone, both near
\* the thresholds of the rule (the blood pressure pair needs its diastolic value)
PairReadings ==
    { [spo2 |-> s, respiratory_rate |-> r] : s \in Around({91, 92}), r \in Around({22, 23}) }
    \cup { [systolic_bp |-> s, diastolic_bp |-> NormalReading["diastolic_bp"], pulse |-> p] :
              s \in Around({89, 90}), p \in Around({100, 101}) }

\* the vital_signs a caller of comprehensive_vital_analysis passes
VitalSignsInputs == CoarseReadings \cup SweptReadings \cup ExtraReadings \cup PairReadings

\* the vital_signs of the requests to comprehensive_patient_analysis: all six
\* vitals, each normal or abnormal (the blood pressure pair taken together);
\* the reading sets no usable vital remains of; and two with an unrecognized key
PatientVitalSigns ==
    { FromChoice(g) : g \in { h \in [VitalKeys -> 1..2] :
                                h["systolic_bp"] = h["diastolic_bp"] } }
    \cup {<<>>, ImplausibleReading}
    \cup {Override(NormalReading, ExtraKey, 0), Override(AbnormalReading, ExtraKey, 55 * U)}

\* the ECG recordings of the requests: valid recordings of 187 samples
EcgSignals == {"recording_a", "recording_b"}

\* what else a caller of comprehensive_patient_analysis passes as ecg_signal: a
\* list (it has no reshape: the call raises before the scaler is touched) and
\* an array of another length (fit_transform succeeds, reshape(1, 187, 1) raises)
MalformedSignals == {"not_an_array", "wrong_length"}

\* patient_data without the key ecg_signal
NoEcgSignal == "no_ecg_signal"

\* the scaler after fit(ecg_data): its attributes are those of ecg_data
Fitted(ecg_data) == [fitted |-> TRUE, data_min |-> ecg_data]

\* self.ecg_scaler after analyze_ecg_signal(ecg_data) has run alone
ScalerAfter(ecg_data, scaler) ==
    IF ecg_data = "not_an_array" THEN scaler ELSE Fitted(ecg_data)

\* what analyze_ecg_signal(ecg_data) returns when it runs alone: the class the
\* model predicts for a valid recording, the error record for the rest
EcgResults(ecg_data, language) ==
    { o \in EcgOutcomes(language) : o.error <=> (ecg_data \in MalformedSignals) }

\* patient_data: the keys vital_signs and ecg_signal are each optional
PatientData(has_vitals, vital_signs, ecg_signal) ==
    IF ecg_signal = NoEcgSignal
    THEN [has_vitals |-> has_vitals, vital_signs |-> vital_signs, has_ecg |-> FALSE]
    ELSE [has_vitals |-> has_vitals, vital_signs |-> vital_signs, has_ecg |-> TRUE,
          ecg_signal |-> ecg_signal]

(***************************************************************************)
(* The state machine                                                       *)
(***************************************************************************)

Languages == {"en", "ar"}

\* How many completed evaluations the history of the engine counts.
MaxEvaluations == 1

\* the request threads of the server that share the one system instance
Threads == {"t1", "t2"}

\* MinMaxScaler() before its first fit, and after _reset()
Unfitted == [fitted |-> FALSE]

\* a thread that serves no request
IdleRequest == [pc |-> "idle"]

\* How many requests the server receives.
MaxRequests == 3

\* The length of the longest record.  The characters of the file are counted
\* in stretches: place i of the file is the same stretch of characters for
\* every record, every writer and every reader, and the stretches end where a
\* record, a write or a read of the run ends.  Records differ in length, and
\* a written record reaches the file in one write or more.
MaxLength == 3

\* os.path.exists(file_path) is False: the patient has no file yet
NoFile == [exists |-> FALSE]

\* the file after open(file_path, "w") and before anything is written: empty
Truncated == [exists |-> TRUE, content |-> <<>>]

\* a stretch of the file nobody has written: a write beyond the end of the
\* file leaves NUL characters before it
NulCell == [nul |-> TRUE]

Init ==
    /\ rule_based_system \in { NewEngine(l) : l \in Languages }
    /\ pc = "idle"
    /\ entry = Unbound
    /\ patient_data = Unbound
    /\ ecg_analysis = Unbound
    /\ errors = Unbound
    /\ cleaned_vital_signs = Unbound
    /\ filtered_vitals = Unbound
    /\ news_analysis = Unbound
    /\ additional_assessments = Unbound
    /\ recommendations = Unbound
    /\ final_alert = Unbound
    /\ vital_analysis = Unbound
    /\ combined_assessment = Unbound
    /\ unified_recommendations = Unbound
    /\ evaluations = 0
    /\ ecg_scaler = Unfitted
    /\ request = [t \in Threads |-> IdleRequest]
    /\ patient_file = NoFile
    /\ started = 0
    /\ answered = {}

\* a call starts with fresh locals; the engine is left as it is
Call(method, has_vitals, vital_signs, ecg_signal, first) ==
    /\ pc = "idle"
    /\ entry' = method
    /\ patient_data' = PatientData(has_vitals, vital_signs, ecg_signal)
    /\ pc' = first
    /\ ecg_analysis' = Unbound
    /\ errors' = Unbound
    /\ cleaned_vital_signs' = Unbound
    /\ filtered_vitals' = Unbound
    /\ news_analysis' = Unbound
    /\ additional_assessments' = Unbound
    /\ recommendations' = Unbound
    /\ final_alert' = Unbound
    /\ vital_analysis' = Unbound
    /\ combined_assessment' = Unbound
    /\ unified_recommendations' = Unbound
    /\ UNCHANGED <<rule_based_system, concurrent_vars, evaluations>>

\* a caller invokes MediGuardRuleBasedSystem.comprehensive_vital_analysis
RequestVitalAnalysis ==
    \E v \in VitalSignsInputs :
        Call("comprehensive_vital_analysis", TRUE, v, NoEcgSignal, "vitals")

\* ... with a patient_data that has no vital_signs key: .get('vital_signs', {})
RequestVitalAnalysisNoKey ==
    Call("comprehensive_vital_analysis", FALSE, <<>>, NoEcgSignal, "vitals")

\* a caller invokes IntegratedMediGuardSystem.comprehensive_patient_analysis
RequestPatientAnalysis ==
    \E v \in PatientVitalSigns, has_vitals \in BOOLEAN,
       ecg_signal \in {NoEcgSignal} \cup EcgSignals \cup MalformedSignals :
        /\ has_vitals \/ v = <<>>
        /\ Call("comprehensive_patient_analysis", has_vitals, v, ecg_signal, "ecg")

\* 1. ECG Analysis: `if 'ecg_signal' in patient_data`; analyze_ecg_signal
\* refits the scaler of the instance (self.ecg_scaler.fit_transform)
AnalyzeEcg ==
    /\ pc = "ecg"
    /\ patient_data.has_ecg
    /\ ecg_analysis' \in EcgResults(patient_data.ecg_signal, rule_based_system.language)
    /\ ecg_scaler' = ScalerAfter(patient_data.ecg_signal, ecg_scaler)
    /\ pc' = "vitals"
    /\ UNCHANGED <<rule_based_system, request, storage_vars, evaluations, entry, patient_data, errors, cleaned_vital_signs,
                   filtered_vitals, news_analysis, additional_assessments,
                   recommendations, final_alert, vital_analysis, combined_assessment,
                   unified_recommendations>>

SkipEcg ==
    /\ pc = "ecg"
    /\ ~patient_data.has_ecg
    /\ ecg_analysis' = NoneResult
    /\ pc' = "vitals"
    /\ UNCHANGED <<rule_based_system, concurrent_vars, evaluations, entry, patient_data, errors, cleaned_vital_signs,
                   filtered_vitals, news_analysis, additional_assessments,
                   recommendations, final_alert, vital_analysis, combined_assessment,
                   unified_recommendations>>

\* 2. Vital Signs Analysis: the else branch of `if 'vital_signs' in patient_data`
SkipVitals ==
    /\ pc = "vitals"
    /\ entry = "comprehensive_patient_analysis"
    /\ ~patient_data.has_vitals
    /\ vital_analysis' = NoneResult
    /\ pc' = "combine"
    /\ UNCHANGED <<rule_based_system, concurrent_vars, evaluations, entry, patient_data, ecg_analysis, errors,
                   cleaned_vital_signs, filtered_vitals, news_analysis,
                   additional_assessments, recommendations, final_alert,
                   combined_assessment, unified_recommendations>>

\* comprehensive_vital_analysis, 1) Check sensor errors
CheckSensors ==
    /\ pc = "vitals"
    /\ entry = "comprehensive_vital_analysis" \/ patient_data.has_vitals
    /\ errors' = _check_sensor_integrity(rule_based_system, patient_data.vital_signs)
    /\ pc' = "clean"
    /\ UNCHANGED <<rule_based_system, concurrent_vars, evaluations, entry, patient_data, ecg_analysis,
                   cleaned_vital_signs, filtered_vitals, news_analysis,
                   additional_assessments, recommendations, final_alert, vital_analysis,
                   combined_assessment, unified_recommendations>>

\* variant: with sensor errors the method returns the errors alone, without
\* an analysis
CleanOrReturnErrors ==
    /\ pc = "clean"
    /\ IF errors # <<>>
       THEN /\ vital_analysis' = [sensor_errors |-> errors]
            /\ pc' = IF entry = "comprehensive_vital_analysis" THEN "done" ELSE "combine"
            /\ UNCHANGED <<cleaned_vital_signs, filtered_vitals>>
       ELSE /\ cleaned_vital_signs' = CleanVitalSigns(patient_data.vital_signs, errors)
            /\ filtered_vitals' = FilterNone(cleaned_vital_signs')
            /\ pc' = "score"
            /\ UNCHANGED vital_analysis
    /\ UNCHANGED <<rule_based_system, concurrent_vars, evaluations, entry, patient_data, ecg_analysis, errors,
                   news_analysis, additional_assessments, recommendations, final_alert,
                   combined_assessment, unified_recommendations>>

\* variant: without .copy(), cleaned_vital_signs is the caller's dict itself
CleanInPlace ==
    /\ pc = "clean"
    /\ cleaned_vital_signs' = CleanVitalSigns(patient_data.vital_signs, errors)
    /\ filtered_vitals' = FilterNone(cleaned_vital_signs')
    /\ patient_data' = [patient_data EXCEPT !.vital_signs = cleaned_vital_signs']
    /\ pc' = "score"
    /\ UNCHANGED <<rule_based_system, concurrent_vars, evaluations, entry, ecg_analysis, errors,
                   news_analysis, additional_assessments, recommendations, final_alert,
                   vital_analysis, combined_assessment, unified_recommendations>>

\* 2) Clean vital_signs and 3) Filter out None before NEWS score
Clean ==
    /\ pc = "clean"
    /\ cleaned_vital_signs' = CleanVitalSigns(patient_data.vital_signs, errors)
    /\ filtered_vitals' = FilterNone(cleaned_vital_signs')
    /\ pc' = "score"
    /\ UNCHANGED <<rule_based_system, concurrent_vars, evaluations, entry, patient_data, ecg_analysis, errors,
                   news_analysis, additional_assessments, recommendations, final_alert,
                   vital_analysis, combined_assessment, unified_recommendations>>

\* variant: the score is calculated from the readings as they came in
ScoreUncleaned ==
    /\ pc = "score"
    /\ news_analysis' = calculate_news_score(rule_based_system, patient_data.vital_signs)
    /\ pc' = "rules"
    /\ UNCHANGED <<rule_based_system, concurrent_vars, evaluations, entry, patient_data, ecg_analysis, errors,
                   cleaned_vital_signs, filtered_vitals, additional_assessments,
                   recommendations, final_alert, vital_analysis, combined_assessment,
                   unified_recommendations>>

\* variant: the running total is kept on the instance (self.total_score) and
\* never reset, so it carries over from one evaluation to the next
ScoreAccumulating ==
    /\ pc = "score"
    /\ LET fresh == calculate_news_score(rule_based_system, filtered_vitals)
           total == Get(rule_based_system, "total_score", 0) + fresh.total_news_score
       IN  /\ news_analysis' =
                 [individual_scores |-> fresh.individual_scores,
                  total_news_score |-> total,
                  risk_category |-> _determine_risk_category(rule_based_system, total)]
           /\ rule_based_system' =
                 [k \in (DOMAIN rule_based_system) \cup {"total_score"} |->
                     IF k = "total_score" THEN total ELSE rule_based_system[k]]
    /\ pc' = "rules"
    /\ UNCHANGED <<concurrent_vars, evaluations, entry, patient_data, ecg_analysis, errors,
                   cleaned_vital_signs, filtered_vitals, additional_assessments,
                   recommendations, final_alert, vital_analysis, combined_assessment,
                   unified_recommendations>>

\* 4) Calculate NEWS score
Score ==
    /\ pc = "score"
    /\ news_analysis' = calculate_news_score(rule_based_system, filtered_vitals)
    /\ pc' = "rules"
    /\ UNCHANGED <<rule_based_system, concurrent_vars, evaluations, entry, patient_data, ecg_analysis, errors,
                   cleaned_vital_signs, filtered_vitals, additional_assessments,
                   recommendations, final_alert, vital_analysis, combined_assessment,
                   unified_recommendations>>

\* 5) Additional rules
Rules ==
    /\ pc = "rules"
    /\ additional_assessments' = _additional_clinical_rules(rule_based_system, filtered_vitals)
    /\ pc' = "recommend"
    /\ UNCHANGED <<rule_based_system, concurrent_vars, evaluations, entry, patient_data, ecg_analysis, errors,
                   cleaned_vital_signs, filtered_vitals, news_analysis, recommendations,
                   final_alert, vital_analysis, combined_assessment,
                   unified_recommendations>>

\* 6) Generate recommendations
Recommend ==
    /\ pc = "recommend"
    /\ recommendations' =
           _generate_recommendations(rule_based_system, news_analysis, additional_assessments)
    /\ pc' = "alert"
    /\ UNCHANGED <<rule_based_system, concurrent_vars, evaluations, entry, patient_data, ecg_analysis, errors,
                   cleaned_vital_signs, filtered_vitals, news_analysis,
                   additional_assessments, final_alert, vital_analysis,
                   combined_assessment, unified_recommendations>>

\* 7) Final alert
FinalAlert ==
    /\ pc = "alert"
    /\ final_alert' =
           _determine_final_alert(rule_based_system, news_analysis, additional_assessments)
    /\ pc' = "return"
    /\ UNCHANGED <<rule_based_system, concurrent_vars, evaluations, entry, patient_data, ecg_analysis, errors,
                   cleaned_vital_signs, filtered_vitals, news_analysis,
                   additional_assessments, recommendations, vital_analysis,
                   combined_assessment, unified_recommendations>>

\* 8) Return full analysis
ReturnVitals ==
    /\ pc = "return"
    /\ vital_analysis' =
           [news_analysis |-> news_analysis,
            additional_assessments |-> additional_assessments,
            recommendations |-> recommendations,
            final_alert |-> final_alert,
            requires_immediate_attention |-> (final_alert.level \in {"red", "critical"}),
            sensor_errors |-> errors,
            cleaned_vital_signs |-> cleaned_vital_signs]
    /\ pc' = IF entry = "comprehensive_vital_analysis" THEN "done" ELSE "combine"
    /\ UNCHANGED <<rule_based_system, concurrent_vars, evaluations, entry, patient_data, ecg_analysis, errors,
                   cleaned_vital_signs, filtered_vitals, news_analysis,
                   additional_assessments, recommendations, final_alert,
                   combined_assessment, unified_recommendations>>

\* 3. Combined Risk
Combine ==
    /\ pc = "combine"
    /\ combined_assessment' = _calculate_combined_risk(ecg_analysis, vital_analysis)
    /\ pc' = "unify"
    /\ UNCHANGED <<rule_based_system, concurrent_vars, evaluations, entry, patient_data, ecg_analysis, errors,
                   cleaned_vital_signs, filtered_vitals, news_analysis,
                   additional_assessments, recommendations, final_alert, vital_analysis,
                   unified_recommendations>>

\* 4. Unified Recommendations, and return
Unify ==
    /\ pc = "unify"
    /\ unified_recommendations' =
           _generate_unified_recommendations(rule_based_system.language, ecg_analysis,
                                             vital_analysis, combined_assessment)
    /\ pc' = "done"
    /\ UNCHANGED <<rule_based_system, concurrent_vars, evaluations, entry, patient_data, ecg_analysis, errors,
                   cleaned_vital_signs, filtered_vitals, news_analysis,
                   additional_assessments, recommendations, final_alert, vital_analysis,
                   combined_assessment>>

\* the caller takes the returned dict; the locals of the call are gone and
\* the engine is ready for the next evaluation
Deliver ==
    /\ pc = "done"
    /\ pc' = "idle"
    /\ entry' = Unbound
    /\ patient_data' = Unbound
    /\ ecg_analysis' = Unbound
    /\ errors' = Unbound
    /\ cleaned_vital_signs' = Unbound
    /\ filtered_vitals' = Unbound
    /\ news_analysis' = Unbound
    /\ additional_assessments' = Unbound
    /\ recommendations' = Unbound
    /\ final_alert' = Unbound
    /\ vital_analysis' = Unbound
    /\ combined_assessment' = Unbound
    /\ unified_recommendations' = Unbound
    /\ evaluations' = IF evaluations < MaxEvaluations THEN evaluations + 1 ELSE evaluations
    /\ UNCHANGED <<rule_based_system, concurrent_vars>>

Next ==
    \/ RequestVitalAnalysis
    \/ RequestVitalAnalysisNoKey
    \/ RequestPatientAnalysis
    \/ AnalyzeEcg
    \/ SkipEcg
    \/ SkipVitals
    \/ CheckSensors
    \/ Clean
    \/ Score
    \/ Rules
    \/ Recommend
    \/ FinalAlert
    \/ ReturnVitals
    \/ Combine
    \/ Unify
    \/ Deliver

Spec == Init /\ [][Next]_vars

(***************************************************************************)
(* The concurrent machine: the request threads of the server (src/api.py,  *)
(* integrated_analysis) on the one shared IntegratedMediGuardSystem        *)
(* `system` and the one file of the patient they all name.  The statements *)
(* that touch shared state are steps of their own:                         *)
(*   - self.ecg_scaler.fit_transform(...) is MinMaxScaler.fit, which first *)
(*     resets the scaler and then sets its attributes from the data,       *)
(*     followed by transform, which reads them;                            *)
(*   - load_patient opens the file, reads it with one read() after the     *)
(*     other until a read returns nothing, and decodes what it read;       *)
(*     save_patient opens the file for writing (which empties it) and      *)
(*     writes the record through its own descriptor at its own offset, in  *)
(*     one write or more.                                                  *)
(* The rest of a request reads the tables and its own locals only.  The    *)
(* second load_patient of the handler sets the gender only and is part of  *)
(* the step that appends to the history.  An exception anywhere in the     *)
(* handler ends the request with HTTP 500 (except Exception).              *)
(***************************************************************************)

\* the vital_signs of the requests whose vitals are numbers
ConcurrentVitalSigns == {AbnormalReading}

\* request.json: an ecg_signal and vitals that are numbers; "vitals": null;
\* vitals whose pulse is a string
RequestBodies ==
    { [ecg_signal |-> s, vitals |-> v, shape |-> "numbers"] :
          s \in EcgSignals, v \in ConcurrentVitalSigns }
    \cup { [ecg_signal |-> "recording_a", shape |-> "vitals_null"] }
    \cup { [ecg_signal |-> s, vitals |-> NormalReading, shape |-> "pulse_string"] :
              s \in EcgSignals }

\* the thread's record with one more local assigned and the next position
Assign(t, local, value, next) ==
    [k \in (DOMAIN request[t]) \cup {local} |->
        IF k = local THEN value ELSE IF k = "pc" THEN next ELSE request[t][k]]

\* in an analysis_history that json.load returns: one value or more, one
\* after the other, none of which is an entry as a request appended it (a
\* number of an ecg_signal, an entry cut short or put together from two, ...)
ForeignValues == [foreign |-> TRUE]

\* a record that json.load returns without an analysis_history that is a list
NoHistoryKey == [no_history |-> TRUE]

\* the places of the text are those of one written record
OneRecord(content) ==
    \A i \in 1..Len(content) :
        /\ content[i].record = content[1].record
        /\ content[i].length = content[1].length

\* json.load(f) can succeed on the text read: it is not empty, no place
\* holds NUL, and where all its places are those of one record it is that
\* record to its end (the head of a record does not decode; a text of places
\* of several records can, also when a record ends inside it)
Decodable(content) ==
    /\ content # <<>>
    /\ \A i \in 1..Len(content) : "length" \in DOMAIN content[i]
    /\ OneRecord(content) => Len(content) = content[1].length

\* the smaller of two numbers
Smaller(a, b) == IF a < b THEN a ELSE b

\* a history with foreign values that follow each other taken as one
RECURSIVE Collapse(_)
Collapse(history) ==
    IF Len(history) <= 1 THEN history
    ELSE IF history[1] = ForeignValues /\ history[2] = ForeignValues
         THEN Collapse(Tail(history))
         ELSE <<history[1]>> \o Collapse(Tail(history))

\* the analysis_history json.load can find in a text that goes over from a
\* record with history `ha` to a record with history `hb`: the first `kept`
\* items of ha, then what the seam makes of the values it cuts or of the
\* values of another list of hb's record (foreign values, or nothing), then
\* hb without its first `dropped` items.  All of ha (the text goes over
\* after the list) and all of hb (before it) are among them.
Spliced(ha, hb) ==
    { Collapse(SubSeq(ha, 1, kept) \o seam \o SubSeq(hb, dropped + 1, Len(hb))) :
        <<kept, dropped, seam>> \in
            (0..Len(ha)) \X (0..Len(hb)) \X {<<>>, <<ForeignValues>>} }

\* the histories json.load can find in the places 1..k of a text
RECURSIVE SplicedUpTo(_, _)
SplicedUpTo(content, k) ==
    IF k = 1 THEN {content[1].record.analysis_history}
    ELSE UNION { Spliced(h, content[k].record.analysis_history) :
                    h \in SplicedUpTo(content, k - 1) }

\* json.load(f) on the text read, NoneResult standing for JSONDecodeError.
\* The text of one record decodes to that record.  Where the places come
\* from more than one record, the characters on both sides of each seam
\* decide, and the model does not hold them: the text does not decode, or it
\* decodes to a record put together from the records of its places, which
\* can lack the key analysis_history.
json_load(content) ==
    IF ~Decodable(content) THEN {NoneResult}
    ELSE IF OneRecord(content) THEN {content[1].record}
    ELSE {NoneResult, NoHistoryKey} \cup
         { [analysis_history |-> h] : h \in SplicedUpTo(content, Len(content)) }

\* how many places a read() returns to a reader that has read `read` places,
\* found the file `size` places long when it opened it, and finds it
\* `available` places longer than what it has read.  The first read asks for
\* the size found at the open and one character more (a place of its own,
\* or the head of the next place, which the model then leaves to the next
\* read); with size 0, and after the first read, the number of characters
\* asked for does not depend on the file, and the read returns what is
\* available or less.
ReadCounts(read, size, available) ==
    IF read = 0 /\ size > 0
    THEN {Smaller(size, available), Smaller(size + 1, available)}
    ELSE 1..available

\* load_patient on a file nobody writes meanwhile: the values it can return
\* (None when there is no file or json.load raises)
load_patient(file) ==
    IF file.exists THEN json_load(file.content) ELSE {NoneResult}

\* the file after a write of the places from..upto of a record `length`
\* places long through a descriptor of its own that stands at `from`: what
\* lies beyond stays, a gap before it is filled with NUL
WriteAt(content, from, upto, record, length) ==
    [i \in 1..(IF Len(content) > upto THEN Len(content) ELSE upto) |->
        IF from <= i /\ i <= upto
        THEN [record |-> record, place |-> i, length |-> length]
        ELSE IF i <= Len(content) THEN content[i]
        ELSE NulCell]

\* a request arrives: data = request.json; its number stands for its
\* analysis_timestamp
Receive(t) ==
    /\ request[t].pc = "idle"
    /\ started < MaxRequests
    /\ started' = started + 1
    /\ \E data \in RequestBodies :
          request' = [request EXCEPT ![t] =
                         [pc |-> "flatten", number |-> started + 1, data |-> data]]
    /\ UNCHANGED <<rule_based_system, ecg_scaler, sequential_vars, patient_file, answered>>

\* the loop over vitals.items() and patient_data (both keys always present);
\* vitals that is None has no items: the request ends with HTTP 500
Flatten(t) ==
    /\ request[t].pc = "flatten"
    /\ request' = [request EXCEPT ![t] =
           IF request[t].data.shape = "vitals_null" THEN IdleRequest
           ELSE [pc |-> "reset", number |-> request[t].number,
                 patient_data |-> [ecg_signal |-> request[t].data.ecg_signal,
                                   vital_signs |-> request[t].data.vitals,
                                   shape |-> request[t].data.shape]]]
    /\ UNCHANGED <<rule_based_system, ecg_scaler, sequential_vars, storage_vars>>

\* analyze_ecg_signal, fit_transform: fit begins with self._reset()
FitReset(t) ==
    /\ request[t].pc = "reset"
    /\ ecg_scaler' = Unfitted
    /\ request' = [request EXCEPT ![t].pc = "fit"]
    /\ UNCHANGED <<rule_based_system, sequential_vars, storage_vars>>

\* fit_transform: fit then sets the attributes of the scaler from the data
FitSet(t) ==
    /\ request[t].pc = "fit"
    /\ ecg_scaler' = Fitted(request[t].patient_data.ecg_signal)
    /\ request' = [request EXCEPT ![t].pc = "transform"]
    /\ UNCHANGED <<rule_based_system, sequential_vars, storage_vars>>

\* fit_transform: transform reads the attributes of the scaler (an unfitted
\* scaler raises, which the except branch turns into the error result); then
\* reshape, predict and the returned dict
TransformPredict(t) ==
    /\ request[t].pc = "transform"
    /\ IF ecg_scaler = Unfitted
       THEN \E o \in { x \in EcgOutcomes(rule_based_system.language) : x.error } :
               request' = [request EXCEPT ![t] = Assign(t, "ecg_analysis", o, "vitals")]
       ELSE \E o \in { x \in EcgOutcomes(rule_based_system.language) : ~x.error } :
               request' = [request EXCEPT ![t] =
                   [k \in (DOMAIN request[t]) \cup {"ecg_analysis", "scaled_with"} |->
                       IF k = "ecg_analysis" THEN o
                       ELSE IF k = "scaled_with" THEN ecg_scaler.data_min
                       ELSE IF k = "pc" THEN "vitals"
                       ELSE request[t][k]]]
    /\ UNCHANGED <<rule_based_system, ecg_scaler, sequential_vars, storage_vars>>

\* the rest of comprehensive_patient_analysis, which reads the tables and the
\* locals of the thread only: 2. Vital Signs Analysis, 3. Combined Risk,
\* 4. Unified Recommendations, and the return.  A reading that is a string
\* raises in the integrity check (`30 <= value`): the request ends with HTTP 500
FinishAnalysis(t) ==
    /\ request[t].pc = "vitals"
    /\ request' = [request EXCEPT ![t] =
           IF request[t].patient_data.shape = "pulse_string" THEN IdleRequest
           ELSE LET vitals == comprehensive_vital_analysis(
                                  rule_based_system, request[t].patient_data.vital_signs)
                    combined == _calculate_combined_risk(request[t].ecg_analysis, vitals)
                    unified == _generate_unified_recommendations(
                                   rule_based_system.language, request[t].ecg_analysis,
                                   vitals, combined)
                IN  [k \in (DOMAIN request[t])
                            \cup {"vital_analysis", "combined_assessment",
                                  "unified_recommendations"} |->
                        CASE k = "vital_analysis" -> vitals
                          [] k = "combined_assessment" -> combined
                          [] k = "unified_recommendations" -> unified
                          [] k = "pc" -> "done"
                          [] OTHER -> request[t][k]]]
    /\ UNCHANGED <<rule_based_system, ecg_scaler, sequential_vars, storage_vars>>

\* results_clean; load_patient(patient_id): os.path.exists and open, which
\* finds the size of the file (a file that exists is never removed, so the
\* two see the same file).  Without a file load_patient returns None and
\* the patient is the new record {..., "analysis_history": []}.  Of the
\* results the handler goes on to use what the history entry takes.
LoadPatient(t) ==
    /\ request[t].pc = "done"
    /\ LET combined == request[t].combined_assessment
           history_entry == [timestamp |-> request[t].number,
                             risk_level |-> combined.combined_risk_level,
                             alert_color |-> combined.alert_color]
       IN  request' = [request EXCEPT ![t] =
               IF patient_file.exists
               THEN [pc |-> "read", number |-> request[t].number,
                     entry |-> history_entry,
                     size |-> Len(patient_file.content), read |-> <<>>]
               ELSE [pc |-> "append", number |-> request[t].number,
                     entry |-> history_entry,
                     patient |-> [analysis_history |-> <<>>]]]
    /\ UNCHANGED <<rule_based_system, ecg_scaler, sequential_vars, storage_vars>>

\* load_patient, f.read() inside json.load: a read() of the descriptor that
\* returns characters, those the file holds now where the descriptor stands
LoadRead(t) ==
    /\ request[t].pc = "read"
    /\ LET done == Len(request[t].read)
       IN  /\ Len(patient_file.content) > done
           /\ \E count \in ReadCounts(done, request[t].size,
                                      Len(patient_file.content) - done) :
                 request' = [request EXCEPT ![t].read =
                     request[t].read
                         \o SubSeq(patient_file.content, done + 1, done + count)]
    /\ UNCHANGED <<rule_based_system, ecg_scaler, sequential_vars, storage_vars>>

\* load_patient: the read() that returns nothing (the descriptor stands at or
\* beyond the end of the file) and json.load of all that was read; patient =
\* the record decoded, whatever its keys, or {..., "analysis_history": []}
LoadDecode(t) ==
    /\ request[t].pc = "read"
    /\ Len(patient_file.content) <= Len(request[t].read)
    /\ \E loaded \in json_load(request[t].read) :
          request' = [request EXCEPT ![t] =
              [pc |-> "append", number |-> request[t].number,
               entry |-> request[t].entry,
               patient |-> IF loaded = NoneResult
                           THEN [analysis_history |-> <<>>] ELSE loaded]]
    /\ UNCHANGED <<rule_based_system, ecg_scaler, sequential_vars, storage_vars>>

\* patient["analysis_history"].append({...}); on a loaded record without an
\* analysis_history that is a list the statement raises (KeyError,
\* AttributeError) and the request ends with HTTP 500, nothing saved
AppendHistory(t) ==
    /\ request[t].pc = "append"
    /\ request' = [request EXCEPT ![t] =
           IF request[t].patient = NoHistoryKey THEN IdleRequest
           ELSE [pc |-> "save", number |-> request[t].number,
                 patient |-> [analysis_history |->
                                 Append(request[t].patient.analysis_history,
                                        request[t].entry)]]]
    /\ UNCHANGED <<rule_based_system, ecg_scaler, sequential_vars, storage_vars>>

\* save_patient: open(file_path, "w") creates or empties the file; the text
\* of the record to write is `length` places long
SaveOpen(t) ==
    /\ request[t].pc = "save"
    /\ patient_file' = Truncated
    /\ \E length \in 1..MaxLength :
          request' = [request EXCEPT ![t] =
              [pc |-> "write", number |-> request[t].number,
               patient |-> request[t].patient, length |-> length, written |-> 0]]
    /\ UNCHANGED <<rule_based_system, ecg_scaler, sequential_vars, started, answered>>

\* save_patient: json.dump(data, f) and the end of the with block.  The file
\* object flushes its buffer when it is full and when the file is closed: a
\* flush writes the next places of the record, all that are left or fewer,
\* where this descriptor stands; after the last place the file is closed
SaveWrite(t) ==
    /\ request[t].pc = "write"
    /\ \E upto \in (request[t].written + 1)..request[t].length :
          /\ patient_file' = [exists |-> TRUE,
                              content |-> WriteAt(patient_file.content,
                                                  request[t].written + 1, upto,
                                                  request[t].patient, request[t].length)]
          /\ request' = [request EXCEPT ![t] =
                 IF upto = request[t].length
                 THEN [pc |-> "respond", number |-> request[t].number,
                       patient |-> request[t].patient]
                 ELSE [request[t] EXCEPT !.written = upto]]
    /\ UNCHANGED <<rule_based_system, ecg_scaler, sequential_vars, started, answered>>

\* return jsonify({patient_id: patient}): HTTP 200; the thread is free for the
\* next request
Respond(t) ==
    /\ request[t].pc = "respond"
    /\ answered' = answered \cup {request[t].number}
    /\ request' = [request EXCEPT ![t] = IdleRequest]
    /\ UNCHANGED <<rule_based_system, ecg_scaler, sequential_vars, patient_file, started>>

NextConcurrent ==
    \E t \in Threads :
        \/ Receive(t)
        \/ Flatten(t)
        \/ FitReset(t)
        \/ FitSet(t)
        \/ TransformPredict(t)
        \/ FinishAnalysis(t)
        \/ LoadPatient(t)
        \/ LoadRead(t)
        \/ LoadDecode(t)
        \/ AppendHistory(t)
        \/ SaveOpen(t)
        \/ SaveWrite(t)
        \/ Respond(t)

SpecConcurrent == Init /\ [][NextConcurrent]_vars

TypeOK == pc \in {"idle", "ecg", "vitals", "clean", "score", "rules", "recommend",
                  "alert", "return", "combine", "unify", "done"}

(***************************************************************************)
(* Where the running evaluation stands                                     *)
(***************************************************************************)

\* comprehensive_vital_analysis runs in this evaluation
VitalsRun ==
    /\ pc # "idle"
    /\ entry = "comprehensive_vital_analysis" \/ patient_data.has_vitals

AfterVitals == {"combine", "unify", "done"}
\* errors is assigned
Checked == VitalsRun /\ pc \in {"clean", "score", "rules", "recommend", "alert", "return"} \cup AfterVitals
\* cleaned_vital_signs and filtered_vitals are assigned
Cleaned == VitalsRun /\ pc \in {"score", "rules", "recommend", "alert", "return"} \cup AfterVitals
\* news_analysis is assigned
Scored == VitalsRun /\ pc \in {"rules", "recommend", "alert", "return"} \cup AfterVitals
\* additional_assessments is assigned
Assessed == VitalsRun /\ pc \in {"recommend", "alert", "return"} \cup AfterVitals
\* final_alert is assigned
Alerted == VitalsRun /\ pc \in {"return"} \cup AfterVitals
\* combined_assessment is assigned
Combined == pc \in {"unify", "done"} /\ entry = "comprehensive_patient_analysis"

\* the reading the caller passed for a key, None when the key is absent
Reading(key) == Get(patient_data.vital_signs, key, None)

\* the sensors that have an error record, and the kinds of the records of one sensor
ErrorsOf(sensor) == { i \in 1..Len(errors) : errors[i].sensor = sensor }
HasError(sensor, kind) == \E i \in ErrorsOf(sensor) : errors[i].error = kind

\* the sensor that reports a vital
SensorOf ==
    [pulse |-> "Heart Rate", spo2 |-> "SpO2", temperature |-> "Temperature",
     systolic_bp |-> "Blood Pressure", diastolic_bp |-> "Blood Pressure",
     respiratory_rate |-> "Respiratory Rate"]

\* the vitals whose sensor failed in this evaluation
FailedVitals == { k \in VitalKeys : ErrorsOf(SensorOf[k]) # {} }

\* the types of the detected combinations, in the order they were detected
CombinationsDetected == Get(additional_assessments, "critical_combinations", <<>>)
CombinationTypes ==
    [i \in 1..Len(CombinationsDetected) |-> CombinationsDetected[i].type]
Detected(type) == \E i \in 1..Len(CombinationsDetected) : CombinationsDetected[i].type = type

(***************************************************************************)
(* C1.  The tier of every NEWS total an evaluation produces: the total is  *)
(* a non-negative integer, the tier is low iff 0 <= n <= 4, medium iff     *)
(* 5 <= n <= 6, high iff n >= 7, and never the fallback unknown / gray.    *)
(***************************************************************************)
C1_TierBoundaries ==
    Scored =>
        LET n == news_analysis.total_news_score
            tier == news_analysis.risk_category
        IN  /\ n \in Nat
            /\ tier.level = "low" <=> (0 <= n /\ n <= 4)
            /\ tier.level = "medium" <=> (5 <= n /\ n <= 6)
            /\ tier.level = "high" <=> n >= 7
            /\ tier.level # "unknown"
            /\ tier.alert_level # "gray"
            /\ tier.total_score = n

\* an evaluation whose total sits on the boundary between medium and high
C1_Witness ==
    Scored /\ news_analysis.total_news_score = 7 /\ news_analysis.risk_category.level = "high"

(***************************************************************************)
(* C2.  A present reading exactly on an end of its plausibility band gives *)
(* no error for its sensor and is kept; a reading one whole unit outside   *)
(* the band gives an implausible_value error for its sensor.  The blood    *)
(* pressure band is the pair: both values present, one on or outside its   *)
(* end while the other is inside its own band.                             *)
(***************************************************************************)
SingleSensorVitals == {"pulse", "spo2", "temperature", "respiratory_rate"}

InBand(k, x) == x # None /\ Band[k][1] <= x /\ x <= Band[k][2]
OnBandEnd(k, x) == x = Band[k][1] \/ x = Band[k][2]
OneUnitOutside(k, x) == x = Band[k][1] - U \/ x = Band[k][2] + U

\* the other value of the blood pressure pair
Partner(k) == IF k = "systolic_bp" THEN "diastolic_bp" ELSE "systolic_bp"

C2_BandBoundaries ==
    Cleaned =>
        /\ \A k \in SingleSensorVitals :
            /\ OnBandEnd(k, Reading(k)) =>
                  /\ ErrorsOf(SensorOf[k]) = {}
                  /\ cleaned_vital_signs[k] = Reading(k)
                  /\ k \in DOMAIN filtered_vitals /\ filtered_vitals[k] = Reading(k)
            /\ OneUnitOutside(k, Reading(k)) => HasError(SensorOf[k], "implausible_value")
        /\ \A k \in {"systolic_bp", "diastolic_bp"} :
            InBand(Partner(k), Reading(Partner(k))) =>
                /\ OnBandEnd(k, Reading(k)) =>
                      /\ ErrorsOf("Blood Pressure") = {}
                      /\ cleaned_vital_signs[k] = Reading(k)
                      /\ k \in DOMAIN filtered_vitals /\ filtered_vitals[k] = Reading(k)
                /\ OneUnitOutside(k, Reading(k)) => HasError("Blood Pressure", "implausible_value")

\* a pulse on the upper end of its band, checked, cleaned and kept
C2_Witness ==
    Cleaned /\ Reading("pulse") = 220 * U /\ Get(filtered_vitals, "pulse", None) = 220 * U

(***************************************************************************)
(* C3.  Blood pressure is validated as a pair.  If systolic_bp or          *)
(* diastolic_bp is absent, or the pair is outside its band, both values    *)
(* are None in cleaned_vital_signs and missing from the filtered readings, *)
(* systolic_bp has no NEWS score, diastolic_bp has no staging and          *)
(* potential_shock is not detected.                                        *)
(***************************************************************************)
PairInvalid ==
    \/ Reading("systolic_bp") = None
    \/ Reading("diastolic_bp") = None
    \/ ~(InBand("systolic_bp", Reading("systolic_bp"))
         /\ InBand("diastolic_bp", Reading("diastolic_bp")))

C3_PairInvalidatesBoth ==
    (VitalsRun /\ PairInvalid) =>
        /\ Cleaned =>
              /\ "systolic_bp" \in DOMAIN cleaned_vital_signs
              /\ cleaned_vital_signs["systolic_bp"] = None
              /\ "diastolic_bp" \in DOMAIN cleaned_vital_signs
              /\ cleaned_vital_signs["diastolic_bp"] = None
              /\ "systolic_bp" \notin DOMAIN filtered_vitals
              /\ "diastolic_bp" \notin DOMAIN filtered_vitals
        /\ Scored => "systolic_bp" \notin DOMAIN news_analysis.individual_scores
        /\ Assessed =>
              /\ "diastolic_bp" \notin DOMAIN additional_assessments
              /\ ~Detected("potential_shock")

\* a plausible low systolic value with a fast pulse, its diastolic partner absent:
\* the rules have run and potential_shock was not detected
C3_Witness ==
    /\ Assessed
    /\ Reading("systolic_bp") = 80 * U
    /\ Reading("diastolic_bp") = None
    /\ Reading("pulse") = 120 * U
    /\ ~Detected("potential_shock")

(***************************************************************************)
(* C4.  The integrity check and the cleaning come before every scoring     *)
(* step, and a vital whose sensor failed is absent from all that follows:  *)
(* it has no entry in individual_scores, the total is the sum of the       *)
(* scores of the vitals that did not fail, a failed diastolic value is not *)
(* staged, and every detected combination has both its vitals present and  *)
(* not failed.                                                             *)
(***************************************************************************)
\* the two vitals each combination tests
Participants ==
    [respiratory_distress |-> {"spo2", "respiratory_rate"},
     potential_shock |-> {"systolic_bp", "pulse"},
     potential_sepsis |-> {"temperature", "pulse"}]

\* the scored vitals that are present and did not fail
SoundScoredVitals ==
    { k \in ScoredVitals : Reading(k) # None /\ k \notin FailedVitals }

C4_FailedVitalsExcluded ==
    /\ (pc # "idle" /\ pc \in {"rules", "recommend", "alert", "return"}) =>
          /\ errors = _check_sensor_integrity(rule_based_system, patient_data.vital_signs)
          /\ cleaned_vital_signs = CleanVitalSigns(patient_data.vital_signs, errors)
          /\ filtered_vitals = FilterNone(cleaned_vital_signs)
    /\ Scored =>
          /\ \A k \in FailedVitals : k \notin DOMAIN news_analysis.individual_scores
          /\ DOMAIN news_analysis.individual_scores = SoundScoredVitals
          /\ news_analysis.total_news_score =
                 SumOver([k \in SoundScoredVitals |->
                             _get_news_parameter_score(rule_based_system, k, Reading(k))],
                         SoundScoredVitals)
    /\ Assessed =>
          /\ "diastolic_bp" \in FailedVitals => "diastolic_bp" \notin DOMAIN additional_assessments
          /\ \A i \in 1..Len(CombinationsDetected) :
                \A k \in Participants[CombinationsDetected[i].type] :
                    Reading(k) # None /\ k \notin FailedVitals

\* an implausible pulse (a default or the raw value would score) next to scored vitals
C4_Witness ==
    /\ Assessed
    /\ Reading("pulse") = 250 * U
    /\ "pulse" \in FailedVitals
    /\ news_analysis.total_news_score > 0
    /\ "pulse" \notin DOMAIN news_analysis.individual_scores

(***************************************************************************)
(* C5.  Removing one vital from a reading set changes the NEWS total by    *)
(* that vital's own score and nothing else: the total with the vital is    *)
(* the total of the evaluation of the reading set without it, plus the     *)
(* vital's own per-parameter score (0 when it has none).                   *)
(***************************************************************************)
\* the reading set without one key
Without(vital_signs, key) == [k \in (DOMAIN vital_signs) \ {key} |-> vital_signs[k]]

\* the NEWS total of a whole evaluation of a reading set
TotalOf(vital_signs) ==
    comprehensive_vital_analysis(rule_based_system, vital_signs).news_analysis.total_news_score

\* the score the running evaluation gave a vital, 0 when it gave none
OwnScore(key) ==
    IF key \in DOMAIN news_analysis.individual_scores
    THEN news_analysis.individual_scores[key].score
    ELSE 0

\* as the claim states it: for every vital of the reading set
C5_RemovalChangesOwnScoreOnly ==
    Scored =>
        \A k \in DOMAIN patient_data.vital_signs :
            news_analysis.total_news_score
                = TotalOf(Without(patient_data.vital_signs, k)) + OwnScore(k)

\* C5 as amended: for every vital but diastolic_bp; removing diastolic_bp
\* invalidates the pair, so the total changes by the score of systolic_bp
C5_RemovalExceptDiastolic ==
    Scored =>
        /\ \A k \in (DOMAIN patient_data.vital_signs) \ {"diastolic_bp"} :
              news_analysis.total_news_score
                  = TotalOf(Without(patient_data.vital_signs, k)) + OwnScore(k)
        /\ "diastolic_bp" \in DOMAIN patient_data.vital_signs =>
              news_analysis.total_news_score
                  = TotalOf(Without(patient_data.vital_signs, "diastolic_bp"))
                    + OwnScore("systolic_bp")

\* a scored spo2 of 85 among other scoring vitals: without it the total is 3 less
C5_Witness ==
    /\ Scored
    /\ Reading("spo2") = 85 * U
    /\ OwnScore("spo2") = 3
    /\ news_analysis.total_news_score > 3
    /\ TotalOf(Without(patient_data.vital_signs, "spo2")) = news_analysis.total_news_score - 3

(***************************************************************************)
(* C6.  The detected combinations are exactly the rules that hold of the   *)
(* cleaned reading set, each once, in the order respiratory_distress,      *)
(* potential_shock, potential_sepsis; a rule that holds is reported        *)
(* whatever the other rules do.                                            *)
(***************************************************************************)
\* the vital has a value in the cleaned reading set
Present(k) == k \in DOMAIN cleaned_vital_signs /\ cleaned_vital_signs[k] # None

RespiratoryDistressHolds ==
    /\ Present("spo2") /\ Present("respiratory_rate")
    /\ cleaned_vital_signs["spo2"] < 92 * U
    /\ cleaned_vital_signs["respiratory_rate"] > 22 * U
PotentialShockHolds ==
    /\ Present("systolic_bp") /\ Present("pulse")
    /\ cleaned_vital_signs["systolic_bp"] < 90 * U
    /\ cleaned_vital_signs["pulse"] > 100 * U
PotentialSepsisHolds ==
    /\ Present("temperature") /\ Present("pulse")
    /\ cleaned_vital_signs["temperature"] > 383
    /\ cleaned_vital_signs["pulse"] > 110 * U

C6_RulesIndependent ==
    Assessed =>
        CombinationTypes =
            (IF RespiratoryDistressHolds THEN <<"respiratory_distress">> ELSE <<>>)
            \o (IF PotentialShockHolds THEN <<"potential_shock">> ELSE <<>>)
            \o (IF PotentialSepsisHolds THEN <<"potential_sepsis">> ELSE <<>>)

\* two rules hold at once and both are reported
C6_Witness ==
    /\ Assessed
    /\ RespiratoryDistressHolds /\ PotentialShockHolds /\ ~PotentialSepsisHolds
    /\ CombinationTypes = <<"respiratory_distress", "potential_shock">>

(***************************************************************************)
(* C7.  A rule one of whose two vitals is missing from the cleaned reading *)
(* set (absent, or removed by the integrity check) is not detected,        *)
(* whatever the value of the other vital.                                  *)
(***************************************************************************)
C7_MissingOperandSuppresses ==
    Assessed =>
        \A type \in DOMAIN Participants :
            (\E k \in Participants[type] : k \notin DOMAIN filtered_vitals)
                => ~Detected(type)

\* spo2 removed by the check, the respiratory rate high: no respiratory_distress
C7_Witness ==
    /\ Assessed
    /\ "spo2" \in FailedVitals
    /\ Get(filtered_vitals, "respiratory_rate", None) = 30 * U
    /\ ~Detected("respiratory_distress")

(***************************************************************************)
(* C8.  As the claim states it: whenever the list of detected combinations *)
(* is not empty, the final alert level is critical.                        *)
(***************************************************************************)
C8_AnyCombinationForcesCritical ==
    Alerted => (CombinationsDetected # <<>> => final_alert.level = "critical")

\* C8 as amended: whenever a detected combination has severity critical, the
\* final alert level is critical, whatever the NEWS tier, also when it is low
C8_CriticalSeverityForcesCritical ==
    Alerted =>
        ((\E i \in 1..Len(CombinationsDetected) : CombinationsDetected[i].severity = "critical")
            => final_alert.level = "critical")

\* a critical combination under a low NEWS tier: the final level is critical
C8_Witness ==
    /\ Alerted
    /\ Detected("potential_shock")
    /\ news_analysis.risk_category.level = "low"
    /\ final_alert.level = "critical"

(***************************************************************************)
(* C9.  The final alert is a total function of the NEWS tier and the       *)
(* detected combinations: critical / purple / immediate_intervention if a  *)
(* combination has severity critical; otherwise red / urgent_response for  *)
(* tier high, yellow / prompt_assessment for medium and                    *)
(* green / routine_monitoring for low; the order of the combinations does  *)
(* not matter.                                                             *)
(***************************************************************************)
Reverse(q) == [i \in 1..Len(q) |-> q[Len(q) + 1 - i]]

\* additional_assessments with its combinations in the opposite order
AssessmentsReversed ==
    [k \in DOMAIN additional_assessments |->
        IF k = "critical_combinations" THEN Reverse(additional_assessments[k])
        ELSE additional_assessments[k]]

C9_FinalAlertFunction ==
    Alerted =>
        LET tier == news_analysis.risk_category.level
            critical == \E i \in 1..Len(CombinationsDetected) :
                            CombinationsDetected[i].severity = "critical"
        IN  /\ tier \in {"low", "medium", "high"}
            /\ final_alert =
                 IF critical
                 THEN [level |-> "critical", color |-> "purple",
                       action |-> "immediate_intervention"]
                 ELSE IF tier = "high"
                 THEN [level |-> "red", color |-> "red", action |-> "urgent_response"]
                 ELSE IF tier = "medium"
                 THEN [level |-> "yellow", color |-> "yellow", action |-> "prompt_assessment"]
                 ELSE [level |-> "green", color |-> "green", action |-> "routine_monitoring"]
            /\ _determine_final_alert(rule_based_system, news_analysis, AssessmentsReversed)
                 = final_alert

\* a critical combination followed by one of severity high
C9_Witness ==
    /\ Alerted
    /\ CombinationTypes = <<"potential_shock", "potential_sepsis">>
    /\ final_alert.level = "critical"

(***************************************************************************)
(* C10.  With a cardiac classification and a vitals result both present,   *)
(* risk_score = 0.4 * riskMap(cardiac tier) + 0.6 * vitalsTierScore; the   *)
(* level is high / red iff risk_score >= 2.5, medium / yellow iff          *)
(* 1.5 <= risk_score < 2.5, low / green otherwise; NEWS total 8 with       *)
(* cardiac tier high gives 3.0, high, red and immediate attention.         *)
(* (Scores in tenths.)                                                     *)
(***************************************************************************)
BothPresent == Combined /\ ecg_analysis # NoneResult /\ vital_analysis # NoneResult

C10_FusionBothSources ==
    BothPresent =>
        LET n == vital_analysis.news_analysis.total_news_score
            cardiac == ecg_analysis.risk_level
            riskMap == IF cardiac = "low" THEN 1 ELSE IF cardiac = "medium" THEN 2 ELSE 3
            vitalsTierScore == IF n >= 7 THEN 3 ELSE IF n >= 5 THEN 2 ELSE 1
            score == 4 * riskMap + 6 * vitalsTierScore
            c == combined_assessment
        IN  /\ cardiac \in {"low", "medium", "high"}
            /\ c.risk_score = score
            /\ (c.combined_risk_level = "high" /\ c.alert_color = "red") <=> score >= 25
            /\ (c.combined_risk_level = "medium" /\ c.alert_color = "yellow")
                   <=> (15 <= score /\ score < 25)
            /\ (c.combined_risk_level = "low" /\ c.alert_color = "green") <=> score < 15
            /\ (n = 8 /\ cardiac = "high") =>
                   /\ c.risk_score = 30
                   /\ c.combined_risk_level = "high"
                   /\ c.alert_color = "red"
                   /\ c.requires_immediate_attention = TRUE

\* the worked example: NEWS total 8 and cardiac tier high
C10_Witness ==
    /\ BothPresent
    /\ vital_analysis.news_analysis.total_news_score = 8
    /\ ecg_analysis.risk_level = "high"
    /\ combined_assessment.risk_score = 30
    /\ combined_assessment.requires_immediate_attention

(***************************************************************************)
(* C11.  With exactly one fusion source present, risk_score is the         *)
(* weighted term of that source alone: 0.6 * vitalsTierScore with vitals   *)
(* only, 0.4 * riskMap with a cardiac classification only; nothing stands  *)
(* in for the missing source and the weights are not renormalized, so the  *)
(* level follows from the same thresholds 1.5 and 2.5.  Vitals only with   *)
(* NEWS total 3 gives 0.6, low, green.  (Scores in tenths.)                *)
(***************************************************************************)
OnlyVitals == Combined /\ ecg_analysis = NoneResult /\ vital_analysis # NoneResult
OnlyCardiac == Combined /\ ecg_analysis # NoneResult /\ vital_analysis = NoneResult

\* the level and colour the fusion thresholds give a score in tenths
LevelOf(score) == IF score >= 25 THEN "high" ELSE IF score >= 15 THEN "medium" ELSE "low"
ColorOf(score) == IF score >= 25 THEN "red" ELSE IF score >= 15 THEN "yellow" ELSE "green"

C11_FusionSingleSource ==
    /\ OnlyVitals =>
          LET n == vital_analysis.news_analysis.total_news_score
              vitalsTierScore == IF n >= 7 THEN 3 ELSE IF n >= 5 THEN 2 ELSE 1
              c == combined_assessment
          IN  /\ c.risk_score = 6 * vitalsTierScore
              /\ c.combined_risk_level = LevelOf(6 * vitalsTierScore)
              /\ c.alert_color = ColorOf(6 * vitalsTierScore)
              /\ n = 3 => /\ c.risk_score = 6
                          /\ c.combined_risk_level = "low"
                          /\ c.alert_color = "green"
    /\ OnlyCardiac =>
          LET cardiac == ecg_analysis.risk_level
              riskMap == IF cardiac = "low" THEN 1 ELSE IF cardiac = "medium" THEN 2 ELSE 3
              c == combined_assessment
          IN  /\ cardiac \in {"low", "medium", "high"}
              /\ c.risk_score = 4 * riskMap
              /\ c.combined_risk_level = LevelOf(4 * riskMap)
              /\ c.alert_color = ColorOf(4 * riskMap)

\* the worked example: vitals only, NEWS total 3
C11_Witness ==
    /\ OnlyVitals
    /\ vital_analysis.news_analysis.total_news_score = 3
    /\ combined_assessment.risk_score = 6
    /\ combined_assessment.combined_risk_level = "low"

(***************************************************************************)
(* C12.  As the claim states it: an evaluation in which no usable vital    *)
(* remains after the integrity check (vital_signs missing, empty, or every *)
(* reading absent or implausible) and no cardiac classification is         *)
(* supplied returns combined_risk_level unknown, alert_color gray and      *)
(* risk_score 0.                                                           *)
(***************************************************************************)
\* no recognized vital is left to score in this evaluation
NoUsableVitals ==
    \/ ~patient_data.has_vitals
    \/ \A k \in VitalKeys : k \notin DOMAIN filtered_vitals

C12_NoDataGivesUnknown ==
    (Combined /\ ecg_analysis = NoneResult /\ NoUsableVitals) =>
        /\ combined_assessment.combined_risk_level = "unknown"
        /\ combined_assessment.alert_color = "gray"
        /\ combined_assessment.risk_score = 0

(***************************************************************************)
(* C13.  Every evaluation of numeric or absent readings, with or without a *)
(* cardiac classification, runs to its return and returns a verdict: no    *)
(* statement of it fails, so every position but the idle one has a next    *)
(* step.  Each absent reading has a device_disconnected entry for its      *)
(* sensor and each present reading outside its band an implausible_value   *)
(* entry (for blood pressure, device_disconnected if the other value of    *)
(* the pair is absent); the entries are returned in sensor_errors beside   *)
(* the whole analysis.                                                     *)
(***************************************************************************)
VerdictKeys ==
    {"news_analysis", "additional_assessments", "recommendations", "final_alert",
     "requires_immediate_attention", "sensor_errors", "cleaned_vital_signs"}

\* the error entry an absent or implausible reading of vital k must have
ReportedAsError(k) ==
    LET x == Reading(k)
        pairAbsent == k \in {"systolic_bp", "diastolic_bp"} /\ Reading(Partner(k)) = None
    IN  /\ x = None => HasError(SensorOf[k], "device_disconnected")
        /\ (x # None /\ ~InBand(k, x)) =>
              IF pairAbsent THEN HasError(SensorOf[k], "device_disconnected")
              ELSE HasError(SensorOf[k], "implausible_value")

C13_NeverAborts ==
    /\ pc # "idle" => ENABLED Next
    /\ Checked => \A k \in VitalKeys : ReportedAsError(k)
    /\ (VitalsRun /\ pc \in AfterVitals) =>
          /\ DOMAIN vital_analysis = VerdictKeys
          /\ vital_analysis.sensor_errors = errors
          /\ vital_analysis.final_alert.level \in {"green", "yellow", "red", "critical"}
    /\ (pc = "done" /\ entry = "comprehensive_patient_analysis") =>
          /\ combined_assessment.combined_risk_level \in {"low", "medium", "high", "unknown"}
          /\ combined_assessment.alert_color \in {"green", "yellow", "red", "gray"}

\* a finished patient evaluation in which every sensor failed and the ECG
\* analysis ended in its except branch
C13_Witness ==
    /\ pc = "done"
    /\ entry = "comprehensive_patient_analysis"
    /\ patient_data.has_vitals
    /\ patient_data.vital_signs = ImplausibleReading
    /\ Len(vital_analysis.sensor_errors) = 5
    /\ ecg_analysis # NoneResult /\ ecg_analysis.error
    /\ combined_assessment.combined_risk_level = "medium"

(***************************************************************************)
(* C14.  As the claim states it: the recommendations are the two tier      *)
(* messages chosen by the NEWS tier alone (high: urgent, monitor_15;       *)
(* medium: medium, monitor_30; otherwise: normal, routine), followed by    *)
(* exactly one critical_combo message per detected combination, in         *)
(* detection order.                                                        *)
(***************************************************************************)
\* recommendations is assigned
Recommended == VitalsRun /\ pc \in {"alert", "return"} \cup AfterVitals

\* the keys of the two tier messages
TierMessageKeys(level) ==
    IF level = "high" THEN <<"urgent", "monitor_15">>
    ELSE IF level = "medium" THEN <<"medium", "monitor_30">>
    ELSE <<"normal", "routine">>

\* a message of the engine's language
Message(key, desc) == [key |-> key, language |-> rule_based_system.language, desc |-> desc]

\* the tier messages followed by one critical_combo message per combination of `combos`
ExpectedRecommendations(combos) ==
    LET keys == TierMessageKeys(news_analysis.risk_category.level)
    IN  << Message(keys[1], <<>>), Message(keys[2], <<>>) >>
        \o [i \in 1..Len(combos) |-> Message("critical_combo", <<combos[i].description>>)]

C14_MessagePerCombination ==
    Recommended => recommendations = ExpectedRecommendations(CombinationsDetected)

\* C14 as amended: one critical_combo message per detected combination of
\* severity critical, in detection order; a combination of another severity
\* (potential_sepsis, high) adds no message
IsCriticalSeverity(combo) == combo.severity = "critical"

C14_MessagePerCriticalSeverity ==
    Recommended =>
        recommendations =
            ExpectedRecommendations(SelectSeq(CombinationsDetected, IsCriticalSeverity))

\* tier high with potential_shock and potential_sepsis detected: one message, for the shock
C14_Witness ==
    /\ Recommended
    /\ CombinationTypes = <<"potential_shock", "potential_sepsis">>
    /\ news_analysis.risk_category.level = "high"
    /\ Len(recommendations) = 3
    /\ recommendations[1].key = "urgent"
    /\ recommendations[3].key = "critical_combo"

(***************************************************************************)
(* C15.  The unified recommendations of a patient evaluation: the cardiac  *)
(* recommendation, if the classification has one (class 2 or 4:            *)
(* ventricular, 1: supraventricular, 3: fusion, 0: none), followed by the  *)
(* recommendations of the vitals analysis in their order; the emergency    *)
(* message stands before them, as the first element, if and only if the    *)
(* combined verdict has requires_immediate_attention.                      *)
(***************************************************************************)
\* unified_recommendations is assigned
Unified == pc = "done" /\ entry = "comprehensive_patient_analysis"

CardiacRecommendation ==
    IF ecg_analysis = NoneResult \/ ecg_analysis.class = 0 THEN <<>>
    ELSE << Message(CASE ecg_analysis.class \in {2, 4} -> "ventricular"
                      [] ecg_analysis.class = 1 -> "supraventricular"
                      [] ecg_analysis.class = 3 -> "fusion", <<>>) >>

VitalsRecommendations ==
    IF vital_analysis = NoneResult THEN <<>> ELSE vital_analysis.recommendations

C15_UnifiedOrder ==
    Unified =>
        LET emergencyFirst == /\ unified_recommendations # <<>>
                              /\ unified_recommendations[1].key = "emergency"
            rest == IF emergencyFirst THEN Tail(unified_recommendations)
                    ELSE unified_recommendations
        IN  /\ emergencyFirst <=> combined_assessment.requires_immediate_attention
            /\ rest = CardiacRecommendation \o VitalsRecommendations
            /\ \A i \in 1..Len(rest) : rest[i].key # "emergency"

\* immediate attention with a ventricular classification and three messages
\* of the vitals analysis
C15_Witness ==
    /\ Unified
    /\ combined_assessment.requires_immediate_attention
    /\ ecg_analysis # NoneResult /\ ecg_analysis.class = 2
    /\ vital_analysis # NoneResult
    /\ Len(vital_analysis.recommendations) = 3
    /\ Len(unified_recommendations) = 5
    /\ unified_recommendations[1].key = "emergency"
    /\ unified_recommendations[2].key = "ventricular"

(***************************************************************************)
(* C16.  contributing_factors of the combined verdict is the cardiac       *)
(* factor ("ECG issue: " and the class name), present if and only if there *)
(* is a cardiac classification of tier medium or high, followed by the     *)
(* description of every detected combination, of whatever severity, in     *)
(* detection order, and nothing else.                                      *)
(***************************************************************************)
CardiacFactor ==
    IF ecg_analysis # NoneResult /\ ecg_analysis.risk_level \in {"medium", "high"}
    THEN << <<"ECG issue", ecg_analysis.class_name>> >>
    ELSE <<>>

\* the combinations the vitals analysis of this evaluation returned
ReturnedCombinations ==
    IF vital_analysis = NoneResult THEN <<>>
    ELSE Get(vital_analysis.additional_assessments, "critical_combinations", <<>>)

C16_ContributingFactors ==
    Combined =>
        combined_assessment.contributing_factors =
            CardiacFactor
            \o [i \in 1..Len(ReturnedCombinations) |->
                   Description(ReturnedCombinations[i].type, rule_based_system.language)]

\* a medium cardiac tier and three combinations, the last of severity high
C16_Witness ==
    /\ Combined
    /\ ecg_analysis # NoneResult /\ ecg_analysis.risk_level = "medium"
    /\ Len(ReturnedCombinations) = 3
    /\ ReturnedCombinations[3].severity = "high"
    /\ Len(combined_assessment.contributing_factors) = 4

(***************************************************************************)
(* C17.  As the claim states it: a present diastolic value below 60 is     *)
(* staged hypotension, 60 to 89 normal, 90 to 99 stage-1 (moderate)        *)
(* hypertension and above 109 stage-2 (severe) hypertension, each with a   *)
(* severity of low, medium or high; with diastolic absent from the cleaned *)
(* readings there is no staging entry.                                     *)
(***************************************************************************)
C17_DiastolicStaging ==
    Assessed =>
        IF "diastolic_bp" \in DOMAIN filtered_vitals
        THEN LET d == filtered_vitals["diastolic_bp"]
                 staged == additional_assessments["diastolic_bp"]
             IN  /\ "diastolic_bp" \in DOMAIN additional_assessments
                 /\ staged.value = d
                 /\ staged.severity \in {"low", "medium", "high"}
                 /\ d < 60 * U => staged.status = "hypotension"
                 /\ (60 * U <= d /\ d <= 89 * U) => staged.status = "normal"
                 /\ (90 * U <= d /\ d <= 99 * U) => staged.status = "moderate_hypertension"
                 /\ d > 109 * U => staged.status = "severe_hypertension"
        ELSE "diastolic_bp" \notin DOMAIN additional_assessments

(***************************************************************************)
(* C20.  A key of vital_signs that is not one of the six recognized vitals *)
(* is ignored: an evaluation of a reading set with such a key has the      *)
(* sensor errors, individual scores, total, tier, diastolic staging,       *)
(* combinations, recommendations, final alert and combined verdict of the  *)
(* evaluation of the same reading set without the key.                     *)
(***************************************************************************)
HasExtraKey == VitalsRun /\ ExtraKey \in DOMAIN patient_data.vital_signs

\* what the vitals analysis returns for the readings without the unrecognized key
WithoutExtraKey ==
    comprehensive_vital_analysis(rule_based_system, Without(patient_data.vital_signs, ExtraKey))

C20_ExtraKeysIgnored ==
    HasExtraKey =>
        /\ Checked => errors = WithoutExtraKey.sensor_errors
        /\ Scored => news_analysis = WithoutExtraKey.news_analysis
        /\ Assessed => additional_assessments = WithoutExtraKey.additional_assessments
        /\ Recommended => recommendations = WithoutExtraKey.recommendations
        /\ Alerted => final_alert = WithoutExtraKey.final_alert
        /\ Combined =>
              combined_assessment = _calculate_combined_risk(ecg_analysis, WithoutExtraKey)

\* a patient evaluation of abnormal readings that carry an unrecognized key
C20_Witness ==
    /\ HasExtraKey
    /\ Combined
    /\ patient_data.vital_signs[ExtraKey] = 55 * U
    /\ ExtraKey \in DOMAIN filtered_vitals
    /\ ExtraKey \notin DOMAIN news_analysis.individual_scores
    /\ news_analysis.total_news_score = 12

(***************************************************************************)
(* C19.  Scoring and the verdict are deterministic and independent of the  *)
(* history of the engine: whatever evaluations the engine has completed    *)
(* before, its tables are as __init__ built them, and the per-parameter    *)
(* scores, total, tier, combinations, recommendations, final alert and     *)
(* combined verdict of the running evaluation are those that a newly       *)
(* constructed engine gives the same vitals and the same cardiac           *)
(* classification; each per-parameter score depends on its value alone.    *)
(***************************************************************************)
\* an engine as __init__ builds it, in the language of this one
FreshEngine == NewEngine(rule_based_system.language)

\* what a newly constructed engine returns for the vitals of this evaluation
FreshAnalysis == comprehensive_vital_analysis(FreshEngine, patient_data.vital_signs)

C19_HistoryIndependent ==
    /\ rule_based_system = FreshEngine
    /\ Scored =>
          /\ news_analysis = FreshAnalysis.news_analysis
          /\ \A k \in DOMAIN news_analysis.individual_scores :
                news_analysis.individual_scores[k].score
                    = _get_news_parameter_score(FreshEngine, k, Reading(k))
    /\ Assessed => additional_assessments = FreshAnalysis.additional_assessments
    /\ Recommended => recommendations = FreshAnalysis.recommendations
    /\ Alerted => final_alert = FreshAnalysis.final_alert
    /\ Combined =>
          combined_assessment =
              _calculate_combined_risk(ecg_analysis,
                                       IF patient_data.has_vitals THEN FreshAnalysis
                                       ELSE NoneResult)

\* a patient evaluation with a high total, finished on an engine that has
\* completed an evaluation before
C19_Witness ==
    /\ evaluations >= 1
    /\ pc = "done"
    /\ entry = "comprehensive_patient_analysis"
    /\ patient_data.has_vitals
    /\ news_analysis.total_news_score = 12
    /\ combined_assessment.combined_risk_level = "high"

(***************************************************************************)
(* C18.  As the claim states it: evaluations that run concurrently on the  *)
(* same instance, their steps interleaved in any order, each return what   *)
(* they return when run alone, and none of them writes state that another  *)
(* reads: when a thread transforms its recording, the shared scaler is the *)
(* one this thread fitted, and the result it returns is a result of the    *)
(* same request served alone.                                              *)
(***************************************************************************)
\* the results comprehensive_patient_analysis can return for a request served
\* alone: the recording is scaled with its own fit and classified
AloneResults(data) ==
    { LET vitals == comprehensive_vital_analysis(rule_based_system, data.vital_signs)
          combined == _calculate_combined_risk(o, vitals)
      IN  [ecg_analysis |-> o,
           vital_analysis |-> vitals,
           combined_assessment |-> combined,
           unified_recommendations |->
               _generate_unified_recommendations(rule_based_system.language, o, vitals,
                                                 combined)]
      : o \in { x \in EcgOutcomes(rule_based_system.language) : ~x.error } }

\* what a finished thread returns
ResultsOf(t) ==
    [ecg_analysis |-> request[t].ecg_analysis,
     vital_analysis |-> request[t].vital_analysis,
     combined_assessment |-> request[t].combined_assessment,
     unified_recommendations |-> request[t].unified_recommendations]

C18_ConcurrentAsAlone ==
    \A t \in Threads :
        /\ request[t].pc = "transform" =>
              ecg_scaler = Fitted(request[t].patient_data.ecg_signal)
        /\ request[t].pc = "done" =>
              /\ ResultsOf(t) \in AloneResults(request[t].patient_data)
              /\ Get(request[t], "scaled_with", "nothing") = request[t].patient_data.ecg_signal

\* the vitals analysis of every thread is the one of its own readings
ConcurrentVitalsAsAlone ==
    \A t \in Threads :
        request[t].pc \in {"combine", "unify", "done"} =>
            request[t].vital_analysis
                = comprehensive_vital_analysis(NewEngine(rule_based_system.language),
                                               request[t].patient_data.vital_signs)

(***************************************************************************)
(* C21.  As the claim states it: every value of a scored vital that passes *)
(* the integrity check lies in some range of the vital's table, so the     *)
(* score of the vital is the score of the first range that contains the    *)
(* value and the default `return 0` after the loop is never reached.       *)
(***************************************************************************)
\* the ranges of the vital's table that contain the value, in table order
MatchingRanges(vital, value) ==
    { i \in 1..Len(rule_based_system.news_thresholds[vital]) :
        LET range == rule_based_system.news_thresholds[vital][i]
        IN  range[1] <= value /\ value <= range[2] }

C21_TablesCoverPlausibleValues ==
    Scored =>
        \A k \in DOMAIN news_analysis.individual_scores :
            LET value == news_analysis.individual_scores[k].value
                matching == MatchingRanges(k, value)
            IN  /\ value = Reading(k)
                /\ InBand(k, value)
                /\ matching # {}
                /\ news_analysis.individual_scores[k].score =
                       rule_based_system.news_thresholds[k]
                           [CHOOSE i \in matching : \A j \in matching : i <= j][3]

(***************************************************************************)
(* C22.  In every evaluation each per-parameter score is an integer in     *)
(* 0..3, individual_scores has exactly one entry per scored vital that has *)
(* a value in the cleaned reading set, and total_news_score is the sum of  *)
(* those scores: a non-negative integer, at most 15.                       *)
(***************************************************************************)
\* the scored vitals that have a value in the cleaned reading set
ScoredPresent == { k \in ScoredVitals : Present(k) }

C22_ScoresBoundedAndSummed ==
    Scored =>
        LET scores == news_analysis.individual_scores
        IN  /\ DOMAIN scores = ScoredPresent
            /\ \A k \in DOMAIN scores :
                  /\ scores[k].score \in 0..3
                  /\ scores[k].value = cleaned_vital_signs[k]
            /\ news_analysis.total_news_score
                   = SumOver([k \in DOMAIN scores |-> scores[k].score], DOMAIN scores)
            /\ news_analysis.total_news_score \in 0..15

\* all five scored vitals present, four of them with the highest score
C22_Witness ==
    /\ Scored
    /\ DOMAIN news_analysis.individual_scores = ScoredVitals
    /\ Cardinality({ k \in ScoredVitals : news_analysis.individual_scores[k].score = 3 }) = 4
    /\ news_analysis.total_news_score = 13

(***************************************************************************)
(* C23.  comprehensive_vital_analysis leaves the caller's vital_signs      *)
(* unchanged: no step of a running evaluation changes patient_data; the    *)
(* cleaning sets failed readings to None in its copy only.                 *)
(***************************************************************************)
C23_InputUnchanged ==
    [][(pc \notin {"idle", "done"}) => patient_data' = patient_data]_vars

\* an implausible pulse: None in the cleaned copy, still 250 in the caller's dict
C23_Witness ==
    /\ pc = "done"
    /\ VitalsRun
    /\ Reading("pulse") = 250 * U
    /\ cleaned_vital_signs["pulse"] = None
    /\ vital_analysis.cleaned_vital_signs["pulse"] = None

(***************************************************************************)
(* C24.  After the integrity check and the cleaning each of the five       *)
(* sensors is in one of two states: exactly one error record for it is in  *)
(* sensor_errors and all its vitals are None in cleaned_vital_signs, or it *)
(* has no error record and all its vitals keep their input values.         *)
(* sensor_errors holds at most five records, in the order Heart Rate,      *)
(* SpO2, Temperature, Blood Pressure, Respiratory Rate.                    *)
(***************************************************************************)
SensorOrder == <<"Heart Rate", "SpO2", "Temperature", "Blood Pressure", "Respiratory Rate">>

\* the place of a sensor in SensorOrder, 0 for any other name
PlaceOf(sensor) ==
    IF \E i \in 1..Len(SensorOrder) : SensorOrder[i] = sensor
    THEN CHOOSE i \in 1..Len(SensorOrder) : SensorOrder[i] = sensor
    ELSE 0

\* the vitals a sensor reports
VitalsOf(sensor) == { k \in VitalKeys : SensorOf[k] = sensor }

SensorFailed(sensor) ==
    /\ Cardinality(ErrorsOf(sensor)) = 1
    /\ \A k \in VitalsOf(sensor) :
          k \in DOMAIN cleaned_vital_signs /\ cleaned_vital_signs[k] = None

SensorSound(sensor) ==
    /\ ErrorsOf(sensor) = {}
    /\ \A k \in VitalsOf(sensor) :
          /\ Reading(k) # None
          /\ k \in DOMAIN cleaned_vital_signs /\ cleaned_vital_signs[k] = Reading(k)

C24_SensorFailedOrSound ==
    Cleaned =>
        /\ \A i \in 1..Len(SensorOrder) :
              SensorFailed(SensorOrder[i]) \/ SensorSound(SensorOrder[i])
        /\ Len(errors) <= 5
        /\ \A i \in 1..Len(errors) : PlaceOf(errors[i].sensor) # 0
        /\ \A i, j \in 1..Len(errors) :
              i < j => PlaceOf(errors[i].sensor) < PlaceOf(errors[j].sensor)

\* a plausible systolic value whose diastolic partner is absent, between a
\* sound temperature and a failed respiratory rate
C24_Witness ==
    /\ Cleaned
    /\ Reading("systolic_bp") = 120 * U /\ Reading("diastolic_bp") = None
    /\ SensorFailed("Blood Pressure")
    /\ SensorSound("Temperature")
    /\ SensorFailed("Respiratory Rate")
    /\ Len(errors) >= 2

(***************************************************************************)
(* C25.  The vitals tier score the fusion uses (3 for a NEWS total of 7 or *)
(* more, 2 for 5 or more, else 1) agrees with the tier news_analysis       *)
(* reports in the same evaluation: it is 3 iff the tier is high, 2 iff it  *)
(* is medium and 1 iff it is low.  (The tier score is read off the         *)
(* combined score: what remains after the cardiac term, over the weight.)  *)
(***************************************************************************)
VitalsFused == Combined /\ vital_analysis # NoneResult

\* 0.4 * riskMap of this evaluation in tenths, 0 without a cardiac classification
CardiacTerm ==
    IF ecg_analysis # NoneResult THEN 4 * RiskMap(ecg_analysis.risk_level) ELSE 0

\* 0.6 * vitalsTierScore of this evaluation in tenths
VitalsTerm == combined_assessment.risk_score - CardiacTerm

C25_FusionTierAgreesWithNews ==
    VitalsFused =>
        LET tier == vital_analysis.news_analysis.risk_category.level
        IN  /\ VitalsTerm \in {6, 12, 18}
            /\ VitalsTerm = 18 <=> tier = "high"
            /\ VitalsTerm = 12 <=> tier = "medium"
            /\ VitalsTerm = 6 <=> tier = "low"

\* a NEWS total on the lower end of the medium tier
C25_Witness ==
    /\ VitalsFused
    /\ vital_analysis.news_analysis.total_news_score = 5
    /\ vital_analysis.news_analysis.risk_category.level = "medium"
    /\ VitalsTerm = 12

(***************************************************************************)
(* C27.  The level, colour, score and attention flag of the combined       *)
(* verdict are a function of (cardiac present?, cardiac tier, vitals       *)
(* present?, NEWS total) alone: the detected combinations and the vitals   *)
(* final alert change contributing_factors only, and a vitals final alert  *)
(* of critical can stand next to a combined low / green.                   *)
(***************************************************************************)
\* the verdict the four inputs give, in tenths
VerdictOf(cardiac_present, cardiac_tier, vitals_present, news_total) ==
    LET cardiac == IF cardiac_present
                   THEN (IF cardiac_tier = "low" THEN 4
                         ELSE IF cardiac_tier = "medium" THEN 8 ELSE 12)
                   ELSE 0
        vitals == IF vitals_present
                  THEN (IF news_total >= 7 THEN 18 ELSE IF news_total >= 5 THEN 12 ELSE 6)
                  ELSE 0
        score == cardiac + vitals
    IN  IF cardiac_present \/ vitals_present
        THEN [combined_risk_level |-> LevelOf(score), alert_color |-> ColorOf(score),
              risk_score |-> score, requires_immediate_attention |-> (score >= 25)]
        ELSE [combined_risk_level |-> "unknown", alert_color |-> "gray",
              risk_score |-> 0, requires_immediate_attention |-> FALSE]

C27_VerdictIgnoresCombinations ==
    Combined =>
        LET c == combined_assessment
            cardiac_present == ecg_analysis # NoneResult
            vitals_present == vital_analysis # NoneResult
        IN  [combined_risk_level |-> c.combined_risk_level, alert_color |-> c.alert_color,
             risk_score |-> c.risk_score,
             requires_immediate_attention |-> c.requires_immediate_attention]
            = VerdictOf(cardiac_present,
                        IF cardiac_present THEN ecg_analysis.risk_level ELSE "none",
                        vitals_present,
                        IF vitals_present THEN vital_analysis.news_analysis.total_news_score
                        ELSE 0)

\* two detected combinations and a final alert of critical under a combined low / green
C27_Witness ==
    /\ Combined
    /\ vital_analysis # NoneResult
    /\ vital_analysis.final_alert.level = "critical"
    /\ Len(combined_assessment.contributing_factors) >= 2
    /\ combined_assessment.combined_risk_level = "low"
    /\ combined_assessment.alert_color = "green"

(***************************************************************************)
(* C28.  For readings that are whole numbers (the temperature in tenths of *)
(* a degree) and pass the integrity check: a detected respiratory_distress *)
(* implies a NEWS total of at least 5 and a detected potential_shock a     *)
(* total of at least 4, so a final alert of critical under the tier low    *)
(* occurs only when potential_shock is the only combination of severity    *)
(* critical and the total is exactly 4.                                    *)
(***************************************************************************)
\* every recognized reading that passed the check is a whole number; the
\* temperature is any number of tenths
IntegerValued ==
    \A k \in (DOMAIN filtered_vitals) \cap (VitalKeys \ {"temperature"}) :
        filtered_vitals[k] % U = 0

\* the types of the detected combinations of severity critical
CriticalTypes ==
    { CombinationsDetected[i].type :
        i \in { j \in 1..Len(CombinationsDetected) :
                  CombinationsDetected[j].severity = "critical" } }

C28_CombinationsBoundTotal ==
    (Alerted /\ IntegerValued) =>
        LET total == news_analysis.total_news_score
        IN  /\ Detected("respiratory_distress") => total >= 5
            /\ Detected("potential_shock") => total >= 4
            /\ (final_alert.level = "critical" /\ news_analysis.risk_category.level = "low")
                  => (total = 4 /\ CriticalTypes = {"potential_shock"})

\* systolic 89 with pulse 101 and nothing else scoring: shock, total 4, tier low
C28_Witness ==
    /\ Alerted /\ IntegerValued
    /\ Reading("systolic_bp") = 89 * U /\ Reading("pulse") = 101 * U
    /\ CriticalTypes = {"potential_shock"}
    /\ news_analysis.total_news_score = 4
    /\ news_analysis.risk_category.level = "low"
    /\ final_alert.level = "critical"

\* the smallest total under a respiratory_distress: spo2 91 with respiratory rate 23
C28_DistressAtFive ==
    /\ Alerted /\ IntegerValued
    /\ Reading("spo2") = 91 * U /\ Reading("respiratory_rate") = 23 * U
    /\ Detected("respiratory_distress")
    /\ news_analysis.total_news_score = 5

(***************************************************************************)
(* C29.  diastolic_bp never contributes to the NEWS score: it has no entry *)
(* in individual_scores, and with a plausible systolic_bp, replacing a     *)
(* present plausible diastolic_bp by any other value of its band 30-150    *)
(* leaves the individual scores, total, tier, combinations,                *)
(* recommendations and final alert as they are; only the diastolic staging *)
(* entry follows the value.  Through the pair check it decides whether     *)
(* systolic_bp is kept.                                                    *)
(***************************************************************************)
\* both values of the blood pressure pair are present and inside their bands
PairPlausible ==
    /\ VitalsRun
    /\ InBand("systolic_bp", Reading("systolic_bp"))
    /\ InBand("diastolic_bp", Reading("diastolic_bp"))

\* other diastolic values of the band: its ends, the staging thresholds and
\* their neighbours
OtherDiastolic == { d \in SweepValues("diastolic_bp") : InBand("diastolic_bp", d) }

\* the analysis of the reading set of this evaluation with diastolic_bp = d
WithDiastolic(d) ==
    comprehensive_vital_analysis(rule_based_system,
                                 Override(patient_data.vital_signs, "diastolic_bp", d))

C29_DiastolicNotScored ==
    /\ Scored => "diastolic_bp" \notin DOMAIN news_analysis.individual_scores
    /\ (PairPlausible /\ Alerted) =>
          \A d \in OtherDiastolic :
              LET other == WithDiastolic(d)
              IN  /\ other.news_analysis = news_analysis
                  /\ Get(other.additional_assessments, "critical_combinations", <<>>)
                         = CombinationsDetected
                  /\ other.recommendations = recommendations
                  /\ other.final_alert = final_alert
                  /\ other.sensor_errors = errors
                  /\ other.additional_assessments["diastolic_bp"]
                         = DiastolicAssessment(rule_based_system, d)
    /\ (VitalsRun /\ Scored /\ InBand("systolic_bp", Reading("systolic_bp"))) =>
          ("systolic_bp" \in DOMAIN news_analysis.individual_scores
              <=> InBand("diastolic_bp", Reading("diastolic_bp")))

\* a scored low systolic value next to a diastolic value staged as severe
C29_Witness ==
    /\ PairPlausible /\ Alerted
    /\ Reading("diastolic_bp") = 109 * U + 1
    /\ additional_assessments["diastolic_bp"].status = "severe_hypertension"
    /\ news_analysis.individual_scores["systolic_bp"].score = 3
    /\ Detected("potential_shock")
    /\ WithDiastolic(30 * U).final_alert = final_alert

(***************************************************************************)
(* C30.  As the claim states it: whatever the interleaving of concurrent   *)
(* requests for the same patient, no history entry is lost: once all       *)
(* requests have completed, the saved record's analysis_history holds one  *)
(* entry for every completed request, next to those stored before.         *)
(***************************************************************************)
\* no request is being served: every request received has completed
AllCompleted == \A t \in Threads : request[t].pc = "idle"

\* the timestamps of the entries of the history of a value load_patient
\* returns, 0 where the history has foreign values
Timestamps(patient) ==
    IF patient = NoneResult \/ patient = NoHistoryKey THEN <<>>
    ELSE [i \in 1..Len(patient.analysis_history) |->
             IF patient.analysis_history[i] = ForeignValues THEN 0
             ELSE patient.analysis_history[i].timestamp]

\* the histories a load of the file can give now, as timestamps
SavedHistory == { Timestamps(patient) : patient \in load_patient(patient_file) }

C30_NoHistoryEntryLost ==
    AllCompleted =>
        \A history \in SavedHistory :
            /\ Len(history) = Cardinality(answered)
            /\ { history[i] : i \in 1..Len(history) } = answered

\* overlapping writers of records of one length: both requests answered, and
\* the file they leave holds places of each
FileOfTwoRecords ==
    /\ AllCompleted
    /\ Cardinality(answered) >= 2
    /\ patient_file.exists
    /\ Decodable(patient_file.content)
    /\ \E i \in 1..Len(patient_file.content) :
          patient_file.content[i].record # patient_file.content[1].record

\* a request goes on with a history that holds values no request appended
ForeignInHistory ==
    \E t \in Threads :
        /\ request[t].pc = "append"
        /\ request[t].patient # NoHistoryKey
        /\ \E i \in 1..Len(request[t].patient.analysis_history) :
              request[t].patient.analysis_history[i] = ForeignValues

\* a request has loaded a record without analysis_history: it will end with
\* HTTP 500 and save nothing
LoadedWithoutHistory ==
    \E t \in Threads :
        /\ request[t].pc = "append"
        /\ request[t].patient = NoHistoryKey

\* the file is the head of a longer record, the tail of a shorter one and
\* the end of the longer one: a record ends inside it, and json.load can
\* decode it
EndInsideDecodes ==
    /\ patient_file.exists
    /\ Len(patient_file.content) = 3
    /\ Decodable(patient_file.content)
    /\ patient_file.content[2].length = 2
    /\ patient_file.content[1].length = 3
    /\ patient_file.content[3].length = 3

\* a read torn by a writer: the reader has read a whole record, the file
\* has been written anew with a longer one, and the next read returns its tail
TornRead ==
    \E t \in Threads :
        /\ request[t].pc = "read"
        /\ Decodable(request[t].read)
        /\ patient_file.exists
        /\ Decodable(patient_file.content)
        /\ Len(patient_file.content) > Len(request[t].read)

\* a reader that opened the file between two writes of a record has read
\* what the first write left and finds nothing more: json.load gets the head
\* of a record
HeadRead ==
    \E t \in Threads :
        /\ request[t].pc = "read"
        /\ request[t].read # <<>>
        /\ request[t].read = patient_file.content
        /\ ~Decodable(request[t].read)
        /\ \E u \in Threads : /\ request[u].pc = "write"
                              /\ request[u].written = Len(patient_file.content)

\* a shorter record written over the first write of a longer one: after the
\* end of the record the file holds characters of the other
ShortOverLong ==
    /\ patient_file.exists
    /\ Len(patient_file.content) = 2
    /\ patient_file.content[1] # NulCell
    /\ patient_file.content[2] # NulCell
    /\ patient_file.content[1].length = 1
    /\ patient_file.content[2].length = 3

\* overlapping writers: both requests answered, and the file they leave cannot
\* be decoded (the shorter record over the head of the longer one, or NUL
\* characters before the tail of a record)
FileLeftUndecodable ==
    /\ AllCompleted
    /\ Cardinality(answered) >= 2
    /\ patient_file.exists
    /\ ~Decodable(patient_file.content)

\* a writer whose file was emptied under it writes on where it stood: the
\* file has NUL characters before the tail of its record
FileWithGap ==
    /\ patient_file.exists
    /\ \E i \in 1..Len(patient_file.content) : patient_file.content[i] = NulCell

(***************************************************************************)
(* C26.  As the claim states it: with a single fusion source the combined  *)
(* verdict is never high.  Cardiac alone gives risk_score at most 1.2 and  *)
(* so always low/green, even for cardiac tier high; vitals alone gives at  *)
(* most 1.8 and so at most medium/yellow; combined_risk_level high,        *)
(* alert_color red and requires_immediate_attention true occur only when   *)
(* both sources are present, and requires_immediate_attention is true iff  *)
(* combined_risk_level is high.  risk_score is the float the code returns. *)
(***************************************************************************)
\* the float in risk_score of this evaluation
ScoreFloat == risk_score_float(ecg_analysis, vital_analysis)

\* high, red and immediate attention need both sources, and attention is high
HighNeedsBothSources ==
    Combined =>
        LET c == combined_assessment
        IN  /\ (\/ c.combined_risk_level = "high"
                \/ c.alert_color = "red"
                \/ c.requires_immediate_attention)
               => (ecg_analysis # NoneResult /\ vital_analysis # NoneResult)
            /\ c.requires_immediate_attention <=> (c.combined_risk_level = "high")

\* vitals alone: at most 1.8, at most medium/yellow
VitalsAloneCapped ==
    OnlyVitals =>
        LET c == combined_assessment
        IN  /\ LessEqBits(ScoreFloat, FloatLiteral(18))
            /\ c.combined_risk_level \in {"low", "medium"}
            /\ c.combined_risk_level = risk_level_float(ecg_analysis, vital_analysis)
            /\ c.alert_color \in {"green", "yellow"}

\* cardiac alone: always low/green
CardiacAloneLow ==
    OnlyCardiac =>
        LET c == combined_assessment
        IN  /\ c.combined_risk_level = "low"
            /\ c.combined_risk_level = risk_level_float(ecg_analysis, vital_analysis)
            /\ c.alert_color = "green"

C26_SingleSourceCappedAtDecimal ==
    /\ OnlyCardiac => LessEqBits(ScoreFloat, FloatLiteral(12))
    /\ CardiacAloneLow
    /\ VitalsAloneCapped
    /\ HighNeedsBothSources

(***************************************************************************)
(* C26, amended: the same, except that the cap of cardiac alone is the     *)
(* float 3 * 0.4, which is 1.2000000000000002: one unit in the last place  *)
(* above the float 1.2, and below the 1.5 at which medium starts.          *)
(***************************************************************************)
C26_SingleSourceNeverHigh ==
    /\ OnlyCardiac => /\ LessEqBits(ScoreFloat, FloatProduct(3, FloatLiteral(4)))
                      /\ LessBits(ScoreFloat, FloatLiteral(15))
    /\ CardiacAloneLow
    /\ VitalsAloneCapped
    /\ HighNeedsBothSources

\* cardiac tier high alone: the float is above 1.2, the verdict low and green
C26_Witness ==
    /\ OnlyCardiac
    /\ ecg_analysis.risk_level = "high"
    /\ LessBits(FloatLiteral(12), ScoreFloat)
    /\ combined_assessment.risk_score = 12
    /\ combined_assessment.combined_risk_level = "low"
    /\ combined_assessment.alert_color = "green"
    /\ ~combined_assessment.requires_immediate_attention

\* vitals alone at the top of the table: 1.7999999999999998, medium and yellow
C26_VitalsAloneAtCap ==
    /\ OnlyVitals
    /\ vital_analysis.news_analysis.total_news_score >= 7
    /\ LessBits(ScoreFloat, FloatLiteral(18))
    /\ combined_assessment.combined_risk_level = "medium"

\* with both sources too, the level the float gives is the level of the tenths
FloatLevelAgrees ==
    Combined =>
        combined_assessment.combined_risk_level
            = risk_level_float(ecg_analysis, vital_analysis)

\* the actions assign what the method as a whole returns
ResultIsWholeAnalysis ==
    (VitalsRun /\ pc \in AfterVitals) =>
        vital_analysis = comprehensive_vital_analysis(rule_based_system, patient_data.vital_signs)

====
